---- MODULE Spec2Model ----
(***************************************************************************)
(* Geo-Guardian backend: the zone store behind /api/zones                  *)
(* (routes/zoneRoutes.js, models/Zone.js).                                 *)
(*                                                                         *)
(* Conventions of the model                                                *)
(*   - a JavaScript string is a sequence of one-character strings;         *)
(*   - a JavaScript scalar is a record tagged by t: "undef", "num", "nan", *)
(*     "bool", "str";                                                      *)
(*   - a number x is held in fixed point as the integer 10 * x (one        *)
(*     decimal place), so 5 stands for 0.5 and 50000 for 5000;             *)
(*   - a vertex or point is the pair <<lng, lat>>, as in GeoJSON, and the  *)
(*     coordinates of a submitted geometry are JSON numbers, on which the  *)
(*     schema's cast to Number is the identity;                            *)
(*   - every request carries dbOk: whether the persistence layer answers   *)
(*     the operation the handler awaits, or makes it throw;                *)
(*   - the 2dsphere index is not part of the repository: its operators     *)
(*     are modelled on a plane, distances on a 0.1-degree lattice.         *)
(***************************************************************************)
EXTENDS Integers, Sequences, FiniteSets, TLC

VARIABLES
    zones,      \* the zones collection, in insertion (natural) order
    nextId,     \* number of ObjectIds handed to saved documents so far
    req,        \* the request handled last
    resp,       \* the response sent for it
    created,    \* history: id -> geometry submitted by the create that made it
    deleted,    \* history: ids removed by a delete
    pc,         \* "arriving": a request is at the rate limiter; "idle": it is
                \*   at the routes; "responded": resp was sent
    isProduction,   \* process.env.NODE_ENV === 'production'
    proc,       \* the process: "running", "closing" (shutdown begun), "exited"
    live,       \* sockets of the io namespace: the registered connections
    nextSock,   \* number of connections accepted so far
    link,       \* history: per socket, the state of its physical link:
                \*   "none", "open", "closed" (by the peer), "error" (transport)
    outbox,     \* per socket: broadcasts written to it, not yet at the peer
    received,   \* per socket: broadcasts the peer has received, in order
    events,     \* history: the 'admin_alert' broadcasts emitted
    lastSignal, \* the 'mobile_danger_alert' handled in the last step, if any
    clock,      \* the server's clock: here, the number of signals handled
    now,        \* Date.now(), in milliseconds since the process started
    readyState, \* mongoose.connection.readyState: 0 disconnected,
                \*   1 connected, 2 connecting
    dbPc,       \* connectDB: "connecting", "backoff", "done", "exit"
    retries,    \* connectDB: the parameter of the running call
    attempts,   \* history: number of mongoose.connect calls that have ended
    exitCode,   \* the code given to process.exit, -1 while none was
    requestCounts,  \* the rate limiter's Map: ip -> { count, resetTime }
    admitted,   \* history: per ip, the requests handed on in its current
                \*   window (n) and the time that window ends (until)
    limited,    \* history: the ips that have been answered 429
    inflight,   \* per handler invocation: the request it serves, how far it
                \*   has run, the store operations it has issued, its answer
    shadow,     \* history: the Map as it would be had the cleanup never run
    nextCleanup,    \* the time the cleanup interval fires next
    httpServer, \* the HTTP server: "listening", "closing", "closed"
    closers,    \* the callbacks given to server.close, in order: "waiting" for
                \*   the server to close, "closingDb", or run to their exit
    timers      \* due times of the force-exit timers that are armed

zoneVars == <<zones, nextId, req, resp, created, deleted, pc>>
sockVars == <<live, nextSock, link, outbox, received, events, lastSignal,
              clock>>
srvVars == <<readyState, dbPc, retries, attempts, exitCode>>
limVars == <<requestCounts, admitted, limited>>
concVars == <<inflight>>
cleanVars == <<shadow, nextCleanup>>
shutVars == <<httpServer, closers, timers>>
vars == <<zoneVars, isProduction, proc, now, sockVars, srvVars, limVars,
          concVars, cleanVars, shutVars>>

\* What the zone routes, the socket handlers and the start of the server
\* leave alone.
otherThanZones == <<isProduction, proc, now, sockVars, srvVars, limVars,
                    concVars, cleanVars, shutVars>>
otherThanSockets == <<zoneVars, isProduction, now, srvVars, limVars,
                      concVars, cleanVars, shutVars>>
otherThanServer == <<zoneVars, isProduction, sockVars, limVars,
                     concVars, cleanVars, shutVars>>
otherThanLimiterAndCleanup == <<isProduction, proc, sockVars, srvVars,
                                concVars, shutVars>>
otherThanLimiter == <<otherThanLimiterAndCleanup, cleanVars>>

\* Bounds of the model: number of documents ever saved, of alert signals ever
\* handled, the time the process is followed for, in milliseconds, the
\* number of requests the second client sends within one window, the time
\* the cleanup of the rate limiter is followed for, and the number of
\* termination signals the process receives.
MaxZones == 2
MaxAlerts == 2
MaxTime == 120001
MaxOther == 1
MaxCleanupTime == 300001
MaxSignals == 2

\* socket.id of the connections, in the order they are accepted.
SocketIds == <<"s1", "s2", "s3">>

\* req.ip of the clients.
IPs == {"10.0.0.1", "10.0.0.2"}

\* const RATE_LIMIT_WINDOW = 60000
RATE_LIMIT_WINDOW == 60000

\* const connectDB = async (retries = 5)
DEFAULT_RETRIES == 5
\* setTimeout(resolve, 5000)
BACKOFF_MS == 5000
Sockets == {SocketIds[i] : i \in 1..Len(SocketIds)}

\* The invocations of route handlers that can be in progress at one time.
Handlers == {"h1", "h2"}

\* An invocation that serves no request.
Free ==
    [pc |-> "free", req |-> [op |-> "none"], resp |-> [status |-> 0],
     stored |-> FALSE, calls |-> 0, replies |-> 0]

\* setInterval(() => { ... }, 300000)
CLEANUP_INTERVAL == 300000

\* No signal was handled in the last step.
NoSignal == [from |-> "", data |-> [t |-> "undef"], threw |-> FALSE]

-----------------------------------------------------------------------------
(* JavaScript values *)

Undef == [t |-> "undef"]
Null == [t |-> "null"]
NaN == [t |-> "nan"]
Num(v) == [t |-> "num", v |-> v]
Str(s) == [t |-> "str", s |-> s]
Bool(b) == [t |-> "bool", b |-> b]

\* ToBoolean(v) = false: the values the routes' `!x` guards reject.
Falsy(v) ==
    \/ v.t = "undef"
    \/ v.t = "null"
    \/ v.t = "nan"
    \/ v.t = "num" /\ v.v = 0
    \/ v.t = "str" /\ v.s = <<>>
    \/ v.t = "bool" /\ ~v.b

\* a || b
Or(a, b) == IF Falsy(a) THEN b ELSE a

WhiteSpace == {" ", "\t", "\n"}
Digits == {"0", "1", "2", "3", "4", "5", "6", "7", "8", "9"}
HexChars == Digits \cup {"a", "b", "c", "d", "e", "f"}

DigitVal(c) ==
    CASE c = "0" -> 0 [] c = "1" -> 1 [] c = "2" -> 2 [] c = "3" -> 3
      [] c = "4" -> 4 [] c = "5" -> 5 [] c = "6" -> 6 [] c = "7" -> 7
      [] c = "8" -> 8 [] c = "9" -> 9

RECURSIVE trimStart(_)
trimStart(s) ==
    IF s # <<>> /\ Head(s) \in WhiteSpace THEN trimStart(Tail(s)) ELSE s

RECURSIVE trimEnd(_)
trimEnd(s) ==
    IF s # <<>> /\ s[Len(s)] \in WhiteSpace
    THEN trimEnd(SubSeq(s, 1, Len(s) - 1))
    ELSE s

\* Mutant of trim: only the leading white space is removed.
trimLeading(s) == trimStart(s)

\* String.prototype.trim
trim(s) == trimEnd(trimStart(s))

\* Number of leading decimal digits of s.
RECURSIVE LeadingDigits(_)
LeadingDigits(s) ==
    IF s # <<>> /\ Head(s) \in Digits THEN 1 + LeadingDigits(Tail(s)) ELSE 0

\* Value of a sequence of decimal digits.
RECURSIVE DigitsValue(_)
DigitsValue(s) ==
    IF s = <<>> THEN 0
    ELSE 10 * DigitsValue(SubSeq(s, 1, Len(s) - 1)) + DigitVal(s[Len(s)])

\* The string a JavaScript value is converted to before it is parsed; only
\* its leading part matters to parseFloat and parseInt.
Sign(s) == IF s # <<>> /\ Head(s) \in {"-", "+"} THEN Head(s) ELSE ""
Unsigned(s) == IF Sign(s) = "" THEN s ELSE Tail(s)

\* parseFloat on a string: leading white space, a sign, digits, then a
\* fraction; NaN when no digit is found.  The result is in fixed point.
parseFloatStr(s) ==
    LET u == Unsigned(trimStart(s))
        n == LeadingDigits(u)
        rest == SubSeq(u, n + 1, Len(u))
        frac == IF rest # <<>> /\ Head(rest) = "." THEN Tail(rest) ELSE <<>>
        m == LeadingDigits(frac)
        mag == 10 * DigitsValue(SubSeq(u, 1, n))
                 + (IF m > 0 THEN DigitVal(frac[1]) ELSE 0)
    IN  IF n = 0 /\ m = 0 THEN NaN
        ELSE Num(IF Sign(trimStart(s)) = "-" THEN -mag ELSE mag)

\* parseInt on a string, radix 10: leading white space, a sign, digits;
\* whatever follows the digits (a fraction included) is dropped.
parseIntStr(s) ==
    LET u == Unsigned(trimStart(s))
        n == LeadingDigits(u)
        mag == 10 * DigitsValue(SubSeq(u, 1, n))
    IN  IF n = 0 THEN NaN
        ELSE Num(IF Sign(trimStart(s)) = "-" THEN -mag ELSE mag)

\* Truncation of a fixed-point number towards zero.
Trunc(v) == IF v >= 0 THEN 10 * (v \div 10) ELSE -(10 * ((-v) \div 10))

parseFloat(v) ==
    CASE v.t = "str" -> parseFloatStr(v.s)
      [] v.t = "num" -> v
      [] OTHER -> NaN

parseInt(v) ==
    CASE v.t = "str" -> parseIntStr(v.s)
      [] v.t = "num" -> Num(Trunc(v.v))
      [] OTHER -> NaN

-----------------------------------------------------------------------------
(* models/Zone.js *)

\* Mutant of validator: the closure test compares the longitudes only.
validatorLngOnly(coords) ==
    IF coords = <<>> \/ Len(coords[1]) < 4 THEN FALSE
    ELSE coords[1][1][1] = coords[1][Len(coords[1])][1]

\* geometry.coordinates validator: the outer ring has at least 4 vertices and
\* its first vertex equals its last in both coordinates.
validator(coords) ==
    IF coords = <<>> \/ Len(coords[1]) < 4 THEN FALSE
    ELSE LET first == coords[1][1]
             last == coords[1][Len(coords[1])]
         IN  first[1] = last[1] /\ first[2] = last[2]

\* Document validation run by save(): name required, geometry.type required
\* and one of the enum, geometry.coordinates required and accepted by the
\* validator.
zoneSchema(doc) ==
    /\ doc.name # <<>>
    /\ doc.geometry.type = "Polygon"
    /\ doc.geometry.coordinates # <<>>
    /\ validator(doc.geometry.coordinates)

\* ObjectId of the n-th saved document, as the 24 hexadecimal characters of
\* its string form.
HexOf(n) == CASE n = 0 -> "0" [] n = 1 -> "1" [] n = 2 -> "2" [] n = 3 -> "3"
              [] n = 4 -> "4" [] n = 5 -> "5" [] n = 6 -> "6" [] n = 7 -> "7"
              [] n = 8 -> "8" [] n = 9 -> "9" [] OTHER -> "a"
ObjectId(n) == [i \in 1..24 |-> IF i = 24 THEN HexOf(n) ELSE "0"]

\* Mutant of isObjectId: only the length is looked at.
isObjectIdLength(s) == Len(s) = 24

\* The cast of a path id to ObjectId succeeds on 24 hexadecimal characters
\* (12-character strings, which older drivers also took, are left out of the
\* inputs).
isObjectId(s) == Len(s) = 24 /\ \A i \in 1..24 : s[i] \in HexChars

Ids(zs) == {zs[i]._id : i \in 1..Len(zs)}

\* A Map of the schema, as the set of its <<key, value>> entries.
Map(entries) == [t |-> "map", entries |-> entries]

\* properties: { type: Map, of: Mixed, default: {} }
DEFAULT_PROPERTIES == Map({})

\* Mutant of NewZone: an open outer ring is closed before it is stored.
NewZoneRepaired(n, name, geometry) ==
    LET c == geometry.coordinates
        closed == IF c # <<>> /\ c[1] # <<>> /\ c[1][1] # c[1][Len(c[1])]
                  THEN <<Append(c[1], c[1][1])>>
                  ELSE c
    IN  [_id |-> ObjectId(n), name |-> trim(name),
         geometry |-> [type |-> geometry.type, coordinates |-> closed],
         properties |-> DEFAULT_PROPERTIES]

\* new Zone({ name: name.trim(), geometry }): the document holds the trimmed
\* name and the geometry as it was submitted; properties, which the
\* constructor is not given, takes the default of the schema.
NewZone(n, name, geometry) ==
    [_id |-> ObjectId(n), name |-> trim(name), geometry |-> geometry,
     properties |-> DEFAULT_PROPERTIES]

\* zoneSchema.index({ geometry: '2dsphere' }): the index takes a polygon whose
\* outer ring has at least 3 different vertices; the insert of any other one
\* is refused by the persistence layer.
indexable(geometry) ==
    LET ring == geometry.coordinates[1]
    IN  Cardinality({ring[i] : i \in 1..Len(ring)}) >= 3

\* The collection operations the routes call.
\* Mutant of save: the new document takes the place of the stored ones.
saveOverwrite(zs, doc) == <<doc>>
save(zs, doc) == Append(zs, doc)
\* Mutant of saveRejected: the document is written before save() throws.
saveRejectedLate(zs, doc) == Append(zs, doc)
\* save() throws: the insert of one document is all or nothing, and nothing
\* of the document is in the collection.
saveRejected(zs, doc) == zs
find(zs) == zs
findById(zs, id) == SelectSeq(zs, LAMBDA z : z._id = id)
\* Mutant of remove: the filter is dropped and every document goes.
removeAll(zs, id) == <<>>
\* Mutant of remove: the document is reported but stays in the collection.
removeNothing(zs, id) == zs
remove(zs, id) == SelectSeq(zs, LAMBDA z : z._id # id)

-----------------------------------------------------------------------------
(* routes/zoneRoutes.js *)

\* Messages of the errors the persistence layer throws at a route when it
\* cannot be reached, and of the error it throws at a query it refuses.
DbErrors ==
    {"connect ECONNREFUSED 127.0.0.1:27017",
     "Operation zones.find() buffering timed out after 10000ms"}
QueryError == "Cast to Number failed, or the query was refused"
IndexError == "Can't extract geo keys: Loop must have at least 3 different vertices"

\* The errors a save can end in: the persistence layer is unreachable, or it
\* is reachable and its index refuses the document.
SaveErrors(dbOk) == IF dbOk THEN {IndexError} ELSE DbErrors

\* Mutant of errorDetail: the detail goes out whatever the mode.
errorDetailAlways(message) == message

\* error: isProduction ? 'Internal server error' : error.message
errorDetail(message) ==
    IF isProduction THEN "Internal server error" ELSE message

\* A handler runs from the arrival of a request to its single response.
Respond(r, q) ==
    /\ pc = "idle"
    /\ pc' = "responded"
    /\ req' = q
    /\ resp' = r

\* POST /api/zones: of the body, const { name, geometry } = req.body is all
\* the handler reads.
CreateZone(name, geometry, properties, dbOk) ==
    LET q == [op |-> "create", name |-> name, geometry |-> geometry,
              properties |-> properties, dbOk |-> dbOk]
    IN
    IF Falsy(name) \/ geometry = Undef
    THEN /\ Respond([op |-> "create", status |-> 400, success |-> FALSE,
                     message |-> "Name and geometry are required"], q)
         /\ UNCHANGED <<zones, nextId, created, deleted>>
    ELSE IF name.t # "str" \/ Len(trim(name.s)) = 0
    THEN /\ Respond([op |-> "create", status |-> 400, success |-> FALSE,
                     message |-> "Invalid zone name"], q)
         /\ UNCHANGED <<zones, nextId, created, deleted>>
    ELSE LET newZone == NewZone(nextId + 1, name.s, geometry)
         IN
         IF ~zoneSchema(newZone)
         THEN /\ Respond([op |-> "create", status |-> 400, success |-> FALSE,
                          message |-> "Invalid zone data",
                          error |-> "ValidationError"], q)
              /\ UNCHANGED <<zones, nextId, created, deleted>>
         ELSE IF ~dbOk \/ ~indexable(geometry)
         THEN /\ \E e \in SaveErrors(dbOk) :
                    Respond([op |-> "create", status |-> 500,
                             success |-> FALSE,
                             message |-> "Failed to create zone",
                             error |-> errorDetail(e), cause |-> e], q)
              /\ zones' = saveRejected(zones, newZone)
              /\ UNCHANGED <<nextId, created, deleted>>
         ELSE /\ nextId < MaxZones
              /\ zones' = save(zones, newZone)
              /\ nextId' = nextId + 1
              /\ created' = created \cup {<<newZone._id, geometry>>}
              /\ Respond([op |-> "create", status |-> 201, success |-> TRUE,
                          message |-> "Zone created successfully",
                          zone |-> newZone], q)
              /\ UNCHANGED deleted

\* GET /api/zones
GetZones(dbOk) ==
    LET q == [op |-> "list", dbOk |-> dbOk]
    IN  /\ IF dbOk
           THEN Respond([op |-> "list", status |-> 200, success |-> TRUE,
                         count |-> Len(find(zones)),
                         zones |-> find(zones)], q)
           ELSE \E e \in DbErrors :
                   Respond([op |-> "list", status |-> 500, success |-> FALSE,
                            message |-> "Failed to fetch zones",
                            error |-> errorDetail(e), cause |-> e], q)
        /\ UNCHANGED <<zones, nextId, created, deleted>>

\* DELETE /api/zones/:id
DeleteZone(id, dbOk) ==
    LET q == [op |-> "delete", id |-> id, dbOk |-> dbOk]
        found == findById(zones, id)
    IN
    IF ~isObjectId(id)
    THEN /\ Respond([op |-> "delete", status |-> 400, success |-> FALSE,
                     message |-> "Invalid zone ID format"], q)
         /\ UNCHANGED <<zones, nextId, created, deleted>>
    ELSE IF ~dbOk
    THEN /\ \E e \in DbErrors :
               Respond([op |-> "delete", status |-> 500, success |-> FALSE,
                        message |-> "Failed to delete zone",
                        error |-> errorDetail(e), cause |-> e], q)
         /\ UNCHANGED <<zones, nextId, created, deleted>>
    ELSE IF found = <<>>
    THEN /\ Respond([op |-> "delete", status |-> 404, success |-> FALSE,
                     message |-> "Zone not found"], q)
         /\ UNCHANGED <<zones, nextId, created, deleted>>
    ELSE /\ zones' = remove(zones, id)
         /\ deleted' = deleted \cup {id}
         /\ Respond([op |-> "delete", status |-> 200, success |-> TRUE,
                     message |-> "Zone deleted successfully",
                     zone |-> found[1]], q)
         /\ UNCHANGED <<nextId, created>>

-----------------------------------------------------------------------------
(* The geospatial operators the routes hand to the 2dsphere index *)

Min(S) == CHOOSE x \in S : \A y \in S : x <= y
Abs(x) == IF x < 0 THEN -x ELSE x
Lo(a, b) == IF a <= b THEN a ELSE b
Hi(a, b) == IF a <= b THEN b ELSE a

Edges(ring) == {<<ring[i], ring[i + 1]>> : i \in 1..(Len(ring) - 1)}

\* Twice the signed area of the triangle a, b, p.
Cross(a, b, p) ==
    (b[1] - a[1]) * (p[2] - a[2]) - (b[2] - a[2]) * (p[1] - a[1])

OnSegment(p, a, b) ==
    /\ Cross(a, b, p) = 0
    /\ Lo(a[1], b[1]) <= p[1] /\ p[1] <= Hi(a[1], b[1])
    /\ Lo(a[2], b[2]) <= p[2] /\ p[2] <= Hi(a[2], b[2])

OnBoundary(p, ring) == \E e \in Edges(ring) : OnSegment(p, e[1], e[2])

\* The ray from p towards +lng crosses the edge a-b.
RayCrosses(p, a, b) ==
    /\ (a[2] > p[2]) # (b[2] > p[2])
    /\ IF b[2] > a[2] THEN Cross(a, b, p) > 0 ELSE Cross(a, b, p) < 0

InInterior(p, ring) ==
    /\ ~OnBoundary(p, ring)
    /\ Cardinality({e \in Edges(ring) : RayCrosses(p, e[1], e[2])}) % 2 = 1

\* $geoIntersects with a Point: the point is in the polygon, boundary included.
geoIntersects(p, ring) == OnBoundary(p, ring) \/ InInterior(p, ring)

\* The points of the 0.1-degree lattice on the boundary of the polygon.
BoundaryLattice(ring) ==
    UNION {{q \in (Lo(e[1][1], e[2][1])..Hi(e[1][1], e[2][1]))
                    \X (Lo(e[1][2], e[2][2])..Hi(e[1][2], e[2][2])) :
                Cross(e[1], e[2], q) = 0} : e \in Edges(ring)}

\* Distance in meters (fixed point) from p to the polygon: 0 inside, else
\* the distance to the nearest boundary point, measured on the 0.1-degree
\* lattice with 11119.5 m to a step.
Distance(p, ring) ==
    IF geoIntersects(p, ring) THEN 0
    ELSE 111195 * Min({Hi(Abs(p[1] - q[1]), Abs(p[2] - q[2])) :
                          q \in BoundaryLattice(ring)})

OuterRing(z) == z.geometry.coordinates[1]

\* Mutant of near: the zones within maxDistance, in collection order.
nearUnsorted(zs, p, maxDistance) ==
    {SelectSeq(zs, LAMBDA z : Distance(p, OuterRing(z)) <= maxDistance)}

\* $near with $maxDistance: the zones within maxDistance of p, nearest first;
\* zones at equal distance come in either order.
near(zs, p, maxDistance) ==
    LET hit == SelectSeq(zs, LAMBDA z : Distance(p, OuterRing(z)) <= maxDistance)
        n == Len(hit)
        orders == {f \in [1..n -> 1..n] :
                      /\ \A i, j \in 1..n : i # j => f[i] # f[j]
                      /\ \A i, j \in 1..n :
                            i < j => Distance(p, OuterRing(hit[f[i]]))
                                       <= Distance(p, OuterRing(hit[f[j]]))}
    IN  {[i \in 1..n |-> hit[f[i]]] : f \in orders}

\* $geoWithin with $box: every vertex of the zone lies in the box, edges
\* included.
geoWithin(z, lo, hi) ==
    \A i \in 1..Len(OuterRing(z)) :
        LET v == OuterRing(z)[i]
        IN  /\ lo[1] <= v[1] /\ v[1] <= hi[1]
            /\ lo[2] <= v[2] /\ v[2] <= hi[2]

\* Query casting rejects a value that is not a number.
IsNumber(v) == v.t = "num"

\* { lat, lng, maxDistance = 5000 } = req.query
DEFAULT_MAX_DISTANCE == 5000

Fail500(op, msg, queried, e) ==
    [op |-> op, status |-> 500, success |-> FALSE, message |-> msg,
     error |-> errorDetail(e), cause |-> e, queried |-> queried]

\* The errors a query can end in: the persistence layer is unreachable, or
\* it is reachable and refuses the query.
QueryErrors(dbOk) == IF dbOk THEN {QueryError} ELSE DbErrors

\* GET /api/zones/nearby
GetNearby(lat, lng, maxDistanceParam, dbOk) ==
    LET q == [op |-> "nearby", lat |-> lat, lng |-> lng,
              maxDistance |-> maxDistanceParam, dbOk |-> dbOk]
        maxDistance == IF maxDistanceParam = Undef
                       THEN Num(10 * DEFAULT_MAX_DISTANCE)
                       ELSE maxDistanceParam
        x == parseFloat(lng)
        y == parseFloat(lat)
        d == parseInt(maxDistance)
    IN
    /\ UNCHANGED <<zones, nextId, created, deleted>>
    /\ IF Falsy(lat) \/ Falsy(lng)
       THEN Respond([op |-> "nearby", status |-> 400, success |-> FALSE,
                     message |-> "Latitude and longitude are required",
                     queried |-> FALSE], q)
       ELSE IF ~IsNumber(x) \/ ~IsNumber(y) \/ ~IsNumber(d)
       THEN Respond(Fail500("nearby", "Failed to find nearby zones", FALSE,
                             QueryError), q)
       ELSE IF ~dbOk \/ d.v < 0
       THEN \E e \in QueryErrors(dbOk) :
               Respond(Fail500("nearby", "Failed to find nearby zones", TRUE, e), q)
       ELSE \E found \in near(zones, <<x.v, y.v>>, d.v) :
               Respond([op |-> "nearby", status |-> 200, success |-> TRUE,
                        count |-> Len(found), zones |-> found,
                        queried |-> TRUE], q)

\* POST /api/zones/check
CheckLocation(lat, lng, dbOk) ==
    LET q == [op |-> "check", lat |-> lat, lng |-> lng, dbOk |-> dbOk]
        x == parseFloat(lng)
        y == parseFloat(lat)
        found == SelectSeq(zones,
                     LAMBDA z : geoIntersects(<<x.v, y.v>>, OuterRing(z)))
        isInDangerZone == Len(found) > 0
    IN
    /\ UNCHANGED <<zones, nextId, created, deleted>>
    /\ IF Falsy(lat) \/ Falsy(lng)
       THEN Respond([op |-> "check", status |-> 400, success |-> FALSE,
                     message |-> "Latitude and longitude are required",
                     queried |-> FALSE], q)
       ELSE IF ~IsNumber(x) \/ ~IsNumber(y)
       THEN Respond(Fail500("check", "Failed to check location", FALSE,
                             QueryError), q)
       ELSE IF ~dbOk
       THEN \E e \in QueryErrors(dbOk) :
               Respond(Fail500("check", "Failed to check location", TRUE, e), q)
       ELSE Respond([op |-> "check", status |-> 200, success |-> TRUE,
                     isInDangerZone |-> isInDangerZone,
                     dangerousZones |-> found,
                     message |-> IF isInDangerZone
                                 THEN "Warning: Inside " \o ToString(Len(found))
                                         \o " danger zone(s)"
                                 ELSE "Location is safe",
                     queried |-> TRUE], q)

\* GET /api/zones/within
GetWithin(minLat, minLng, maxLat, maxLng, dbOk) ==
    LET q == [op |-> "within", minLat |-> minLat, minLng |-> minLng,
              maxLat |-> maxLat, maxLng |-> maxLng, dbOk |-> dbOk]
        x0 == parseFloat(minLng)
        y0 == parseFloat(minLat)
        x1 == parseFloat(maxLng)
        y1 == parseFloat(maxLat)
        found == SelectSeq(zones,
                     LAMBDA z : geoWithin(z, <<x0.v, y0.v>>, <<x1.v, y1.v>>))
    IN
    /\ UNCHANGED <<zones, nextId, created, deleted>>
    /\ IF Falsy(minLat) \/ Falsy(minLng) \/ Falsy(maxLat) \/ Falsy(maxLng)
       THEN Respond([op |-> "within", status |-> 400, success |-> FALSE,
                     message |-> "Bounding box coordinates required",
                     queried |-> FALSE], q)
       ELSE IF ~IsNumber(x0) \/ ~IsNumber(y0) \/ ~IsNumber(x1) \/ ~IsNumber(y1)
       THEN Respond(Fail500("within", "Failed to find zones within area", FALSE,
                             QueryError), q)
       ELSE IF ~dbOk
       THEN \E e \in QueryErrors(dbOk) :
               Respond(Fail500("within", "Failed to find zones within area", TRUE, e), q)
       ELSE Respond([op |-> "within", status |-> 200, success |-> TRUE,
                     count |-> Len(found), zones |-> found,
                     queried |-> TRUE], q)

\* Errors the middleware in front of the routes hands to next(err): the
\* origin check of cors, the body parser, an error without a message.
MiddlewareErrors ==
    {[message |-> "Not allowed by CORS",
      stack |-> "Error: Not allowed by CORS at origin (index.js:43)",
      status |-> Undef],
     [message |-> "request entity too large",
      stack |-> "PayloadTooLargeError: request entity too large",
      status |-> Num(4130)],
     [message |-> "", stack |-> "Error at index.js", status |-> Undef]}

\* Global error handler: app.use((err, req, res, next) => ...)
ErrorHandler(err) ==
    /\ Respond([op |-> "error",
                status |-> Or(err.status, Num(5000)).v \div 10,
                success |-> FALSE,
                message |-> IF err.message = "" THEN "Internal server error"
                            ELSE err.message,
                error |-> IF isProduction THEN "Something went wrong"
                          ELSE err.stack,
                cause |-> err.message],
               [op |-> "error", err |-> err])
    /\ UNCHANGED <<zones, nextId, created, deleted>>

\* The response has gone out; the server waits for the next request.
NextRequest ==
    /\ pc = "responded"
    /\ pc' = "idle"
    /\ req' = [op |-> "none"]
    /\ resp' = [op |-> "none", status |-> 0]
    /\ UNCHANGED <<zones, nextId, created, deleted>>

-----------------------------------------------------------------------------
(* index.js: the health probe *)

\* The decimal digits of a natural number.
RECURSIVE Decimal(_)
Decimal(n) ==
    IF n < 10 THEN <<HexOf(n)>> ELSE Append(Decimal(n \div 10), HexOf(n % 10))

\* new Date().toISOString(): the server's clock, written as a string.
toISOString(t) == Str(Decimal(t) \o <<"Z">>)

\* process.uptime(): seconds since the start, in fixed point.
uptime(t) == Num(t \div 100)

\* Mutant of health: the ping is not awaited, its failure goes unseen.
healthNoPing(state, pingOk, t) ==
    [op |-> "health",
     status |-> IF state = 1 THEN 200 ELSE 503,
     uptime |-> uptime(t), timestamp |-> toISOString(t), state |-> "active",
     database |-> IF state = 1 THEN "connected" ELSE "disconnected"]

\* The answer of the health probe for a readyState and an outcome of the
\* ping.
health(state, pingOk, t) ==
    [op |-> "health",
     status |-> IF state = 1 /\ pingOk THEN 200 ELSE 503,
     uptime |-> uptime(t), timestamp |-> toISOString(t), state |-> "active",
     database |-> IF state # 1 THEN "disconnected"
                  ELSE IF pingOk THEN "connected" ELSE "error"]

\* GET /health
GetHealth(pingOk) ==
    /\ proc = "running"
    /\ Respond(health(readyState, pingOk, now),
               [op |-> "health", pingOk |-> pingOk, readyState |-> readyState])
    /\ UNCHANGED <<zones, nextId, created, deleted>>

-----------------------------------------------------------------------------
(* Inputs *)

\* Rings, in degrees times ten.
SquareRing == << <<-10, -10>>, <<10, -10>>, <<10, 10>>, <<-10, 10>>, <<-10, -10>> >>
TriangleRing == << <<0, 0>>, <<4, 0>>, <<0, 4>>, <<0, 0>> >>
OpenLngRing == << <<0, 0>>, <<4, 0>>, <<0, 4>>, <<1, 0>> >>
OpenLatRing == << <<0, 0>>, <<4, 0>>, <<0, 4>>, <<0, 1>> >>
ShortRing == << <<0, 0>>, <<4, 0>>, <<0, 0>> >>
FlatRing == << <<0, 0>>, <<4, 0>>, <<4, 0>>, <<0, 0>> >>

ValidRings == {SquareRing, TriangleRing}
Rings == ValidRings \cup {OpenLngRing, OpenLatRing, ShortRing, FlatRing}

Polygon(ring) == [type |-> "Polygon", coordinates |-> <<ring>>]

Geometries ==
    {Undef}
      \cup {Polygon(r) : r \in Rings}
      \cup {[type |-> "Polygon", coordinates |-> <<>>],
            [type |-> "Point", coordinates |-> <<SquareRing>>]}

Names ==
    {Undef, Num(0), Num(70), Bool(TRUE), Str(<<>>), Str(<<" ">>),
     Str(<<" ", "\t">>), Str(<<"a">>), Str(<<" ", "a", " ">>)}

\* properties of a JSON body.
Properties == {Undef, Map({<<"risk", Str(<<"h", "i">>)>>})}

PathIds ==
    {ObjectId(n) : n \in 1..(MaxZones + 1)}
      \cup {<<"a", "b", "c">>,
            [i \in 1..24 |-> IF i = 24 THEN "z" ELSE "0"],
            [i \in 1..23 |-> "0"]}

\* lat and lng of a JSON body.
BodyCoords ==
    {Undef, Num(0), Num(-5), Num(5), Num(1), Num(50),
     Str(<<"0", ".", "5">>), Str(<<"a">>)}

\* lat and lng of a query string.
QueryLats == {Undef, Str(<<>>), Str(<<"a">>), Str(<<"0">>), Str(<<"5", "x">>)}
QueryLngs ==
    {Undef, Str(<<"a">>), Str(<<"0", ".", "5">>), Str(<<"1", ".", "1">>),
     Str(<<"-", "3">>)}

QueryDistances ==
    {Undef, Str(<<>>), Str(<<"a">>), Str(<<"-", "5">>),
     Str(<<"5", "0", "0", "0">>),
     Str(<<"1", "1", "1", "1", "9">>),
     Str(<<"1", "1", "1", "1", "9", ".", "5">>),
     Str(<<"1", "1", "1", "2", "0">>),
     Str(<<"9", "0", "0", "0", "0", "0">>)}

QueryMins == {Undef, Str(<<"a">>), Str(<<"-", "1">>), Str(<<"0">>)}
QueryMaxs == {Undef, Str(<<>>), Str(<<"1">>), Str(<<"2">>)}

-----------------------------------------------------------------------------

StoreInit ==
    /\ zones = <<>>
    /\ nextId = 0
    /\ req = [op |-> "none"]
    /\ resp = [op |-> "none", status |-> 0]
    /\ created = {}
    /\ deleted = {}

\* The zone routes on their own: the request has passed the middleware.
ZoneInit == StoreInit /\ pc = "idle"

\* The process has started.
ProcInit ==
    /\ proc = "running"
    /\ now = 0

SockInit ==
    /\ live = {}
    /\ nextSock = 0
    /\ link = [s \in Sockets |-> "none"]
    /\ outbox = [s \in Sockets |-> <<>>]
    /\ received = [s \in Sockets |-> <<>>]
    /\ events = <<>>
    /\ lastSignal = NoSignal
    /\ clock = 0

\* connectDB() has been called and its first mongoose.connect is pending.
SrvInit ==
    /\ readyState = 2
    /\ dbPc = "connecting"
    /\ retries = DEFAULT_RETRIES
    /\ attempts = 0
    /\ exitCode = -1

LimInit ==
    /\ requestCounts = <<>>
    /\ admitted = [ip \in IPs |-> [n |-> 0, until |-> 0]]
    /\ limited = {}

\* No request is being handled.
HandlersInit == inflight = [h \in Handlers |-> Free]

\* setInterval(..., 300000) has armed the cleanup.
CleanupInit ==
    /\ shadow = <<>>
    /\ nextCleanup = CLEANUP_INTERVAL

\* server.listen: no shutdown has begun.
ShutInit ==
    /\ httpServer = "listening"
    /\ closers = <<>>
    /\ timers = {}

RestInit == HandlersInit /\ CleanupInit /\ ShutInit

Init ==
    /\ ZoneInit /\ ProcInit /\ SockInit /\ SrvInit /\ LimInit /\ RestInit
    /\ isProduction \in BOOLEAN

\* One request at a time, with its inputs and with the persistence layer
\* reachable (dbOk) or not.
Next ==
    \/ pc = "idle" /\ UNCHANGED otherThanZones
          /\ \E name \in Names, geometry \in Geometries,
                properties \in Properties, dbOk \in BOOLEAN :
                CreateZone(name, geometry, properties, dbOk)
    \/ pc = "idle" /\ UNCHANGED otherThanZones
          /\ \E dbOk \in BOOLEAN : GetZones(dbOk)
    \/ pc = "idle" /\ UNCHANGED otherThanZones
          /\ \E id \in PathIds, dbOk \in BOOLEAN : DeleteZone(id, dbOk)
    \/ pc = "idle" /\ UNCHANGED otherThanZones
          /\ \E lat \in QueryLats, lng \in QueryLngs, d \in QueryDistances,
                dbOk \in BOOLEAN :
                GetNearby(lat, lng, d, dbOk)
    \/ pc = "idle" /\ UNCHANGED otherThanZones
          /\ \E lat \in BodyCoords, lng \in BodyCoords, dbOk \in BOOLEAN :
                CheckLocation(lat, lng, dbOk)
    \/ pc = "idle" /\ UNCHANGED otherThanZones
          /\ \E minLat \in QueryMins, minLng \in QueryMins,
                maxLat \in QueryMaxs, maxLng \in QueryMaxs, dbOk \in BOOLEAN :
                GetWithin(minLat, minLng, maxLat, maxLng, dbOk)
    \/ pc = "idle" /\ UNCHANGED otherThanZones
          /\ \E err \in MiddlewareErrors : ErrorHandler(err)
    \/ pc = "idle" /\ UNCHANGED otherThanZones
          /\ \E pingOk \in BOOLEAN : GetHealth(pingOk)
    \/ NextRequest /\ UNCHANGED otherThanZones

Spec == Init /\ [][Next]_vars

-----------------------------------------------------------------------------
(* socket/socketHandler.js *)

\* An object of a socket payload; a field that is not supplied is Undef.
Obj(message, location, timestamp) ==
    [t |-> "obj", message |-> message, location |-> location,
     timestamp |-> timestamp]

\* What reading a property of undefined or null does.
TypeError == [t |-> "throw", name |-> "TypeError"]

\* data.message, data.location: a property of an object is its value, a
\* property of another primitive is undefined, and undefined and null have no
\* properties.
Prop(data, name) ==
    CASE data.t \in {"undef", "null"} -> TypeError
      [] data.t = "obj" -> data[name]
      [] OTHER -> Undef

DEFAULT_MESSAGE ==
    Str(<<"T", "o", "u", "r", "i", "s", "t", " ", "e", "n", "t", "e", "r",
          "e", "d", " ", "D", "a", "n", "g", "e", "r", " ", "Z", "o", "n", "e">>)

\* Mutant of adminAlert: a timestamp of the sender is forwarded.
adminAlertForward(data, t) ==
    [message |-> Or(Prop(data, "message"), DEFAULT_MESSAGE),
     location |-> Or(Prop(data, "location"), Null),
     timestamp |-> Or(Prop(data, "timestamp"), toISOString(t)),
     severity |-> Str(<<"c", "r", "i", "t", "i", "c", "a", "l">>)]

\* The payload of 'admin_alert' built from the payload of the signal.
adminAlert(data, t) ==
    [message |-> Or(Prop(data, "message"), DEFAULT_MESSAGE),
     location |-> Or(Prop(data, "location"), Null),
     timestamp |-> toISOString(t),
     severity |-> Str(<<"c", "r", "i", "t", "i", "c", "a", "l">>)]

\* Mutant of emitTo: socket.broadcast.emit, every socket but the sender.
emitToOthers(sockets, from) == sockets \ {from}

\* io.emit: the sockets a broadcast is written to are all the sockets of the
\* namespace, the sender included.
emitTo(sockets, from) == sockets

\* Mutant of leave: the socket stays registered after its disconnect.
leaveNothing(sockets, c) == sockets
\* Mutant of leave: a closing connection takes the others with it.
leaveAll(sockets, c) == {}

\* The namespace's registry, kept by Socket.IO around the 'connection' event.
join(sockets, c) == sockets \cup {c}
leave(sockets, c) == sockets \ {c}

\* io.on('connection'): a new physical link gets a new socket.
OnConnection ==
    /\ proc = "running"
    /\ nextSock < Len(SocketIds)
    /\ nextSock' = nextSock + 1
    /\ live' = join(live, SocketIds[nextSock + 1])
    /\ link' = [link EXCEPT ![SocketIds[nextSock + 1]] = "open"]
    /\ lastSignal' = NoSignal
    /\ UNCHANGED <<proc, outbox, received, events, clock>>

\* The connection closes; what was written to it and had not arrived is lost.
Close(c, how) ==
    /\ link[c] = "open"
    /\ live' = leave(live, c)
    /\ link' = [link EXCEPT ![c] = how]
    /\ outbox' = [outbox EXCEPT ![c] = <<>>]
    /\ lastSignal' = NoSignal
    /\ UNCHANGED <<proc, nextSock, received, events, clock>>

\* The peer disconnects.
OnDisconnect(c) == Close(c, "closed")

\* A write to the connection fails: Socket.IO closes that connection.  The
\* 'error' listener of the handler only logs.
OnTransportError(c) == outbox[c] # <<>> /\ Close(c, "error")

\* socket.on('mobile_danger_alert', (data) => io.emit('admin_alert', ...)).
\* The listener runs unguarded: what it throws reaches 'uncaughtException',
\* which starts the shutdown in production.
OnMobileDangerAlert(c, data) ==
    LET payload == adminAlert(data, clock + 1)
        to == emitTo(live, c)
    IN
    /\ proc # "exited"
    /\ link[c] = "open"
    /\ clock < MaxAlerts
    /\ clock' = clock + 1
    /\ IF payload.message = TypeError \/ payload.location = TypeError
       THEN /\ proc' = IF isProduction THEN "closing" ELSE proc
            /\ lastSignal' = [from |-> c, data |-> data, threw |-> TRUE]
            /\ UNCHANGED <<events, outbox>>
       ELSE /\ events' = Append(events,
                            [signal |-> clock + 1, from |-> c, to |-> to,
                             open |-> {s \in Sockets : link[s] = "open"}])
            /\ lastSignal' = [from |-> c, data |-> data, threw |-> FALSE,
                              emitted |-> payload, at |-> clock + 1]
            /\ outbox' = [s \in Sockets |->
                            IF s \in to THEN Append(outbox[s], Len(events) + 1)
                            ELSE outbox[s]]
            /\ UNCHANGED proc
    /\ UNCHANGED <<live, nextSock, received, link>>

\* The transport hands the oldest pending broadcast to the peer.
Deliver(c) ==
    /\ c \in live
    /\ outbox[c] # <<>>
    /\ received' = [received EXCEPT ![c] = Append(@, Head(outbox[c]))]
    /\ outbox' = [outbox EXCEPT ![c] = Tail(@)]
    /\ lastSignal' = NoSignal
    /\ UNCHANGED <<proc, live, nextSock, events, link, clock>>

\* process.exit at the end of the shutdown: every connection goes.
ProcessExit ==
    /\ proc = "closing"
    /\ proc' = "exited"
    /\ live' = {}
    /\ link' = [s \in Sockets |-> IF link[s] = "open" THEN "closed" ELSE link[s]]
    /\ outbox' = [s \in Sockets |-> <<>>]
    /\ lastSignal' = NoSignal
    /\ UNCHANGED <<nextSock, received, events, clock>>

\* Payloads of the signal.
Location == [t |-> "obj", lat |-> 10, lng |-> 10]
Payloads ==
    {Undef, Str(<<"x">>),
     Obj(Undef, Undef, Undef),
     Obj(Str(<<"t", "e", "s", "t">>), Location, Undef),
     Obj(Str(<<>>), Null, Num(70)),
     Obj(Undef, Location, Num(70))}

\* The connections and the alerts of the real-time channel.
SocketInit ==
    /\ ZoneInit /\ ProcInit /\ SockInit /\ SrvInit /\ LimInit /\ RestInit
    /\ isProduction \in BOOLEAN

SocketNext ==
    \/ OnConnection /\ UNCHANGED otherThanSockets
    \/ \E c \in Sockets : OnDisconnect(c) /\ UNCHANGED otherThanSockets
    \/ \E c \in Sockets : OnTransportError(c) /\ UNCHANGED otherThanSockets
    \/ \E c \in Sockets, data \in Payloads :
          OnMobileDangerAlert(c, data) /\ UNCHANGED otherThanSockets
    \/ \E c \in Sockets : Deliver(c) /\ UNCHANGED otherThanSockets
    \/ ProcessExit /\ UNCHANGED otherThanSockets

SocketSpec == SocketInit /\ [][SocketNext]_vars

-----------------------------------------------------------------------------
(* index.js: connectDB *)

\* mongoose.connect settles: it resolves (ok) or throws.  On a failure the
\* catch block either plans the next call, connectDB(retries - 1), after the
\* back-off, or gives up with process.exit(1).
MongooseConnect(ok) ==
    /\ dbPc = "connecting"
    /\ attempts' = attempts + 1
    /\ IF ok
       THEN /\ readyState' = 1
            /\ dbPc' = "done"
            /\ UNCHANGED <<proc, exitCode>>
       ELSE /\ readyState' = 0
            /\ IF retries > 0
               THEN dbPc' = "backoff" /\ UNCHANGED <<proc, exitCode>>
               ELSE dbPc' = "exit" /\ proc' = "exited" /\ exitCode' = 1
    /\ UNCHANGED <<now, retries>>

\* await new Promise(resolve => setTimeout(resolve, 5000));
\* return connectDB(retries - 1);
RetryConnectDB ==
    /\ dbPc = "backoff"
    /\ now + BACKOFF_MS <= MaxTime
    /\ now' = now + BACKOFF_MS
    /\ retries' = retries - 1
    /\ dbPc' = "connecting"
    /\ readyState' = 2
    /\ UNCHANGED <<proc, attempts, exitCode>>

\* The driver loses an established connection, and finds it again.
OnDisconnected ==
    /\ proc = "running"
    /\ readyState = 1
    /\ readyState' = 0
    /\ UNCHANGED <<proc, now, dbPc, retries, attempts, exitCode>>

OnReconnected ==
    /\ proc = "running"
    /\ dbPc = "done"
    /\ readyState = 0
    /\ readyState' = 1
    /\ UNCHANGED <<proc, now, dbPc, retries, attempts, exitCode>>

\* Time passes.
Tick(dt) ==
    /\ proc = "running"
    /\ now + dt <= MaxTime
    /\ now' = now + dt
    /\ UNCHANGED <<proc, readyState, dbPc, retries, attempts, exitCode>>

Delays == {20000}

\* The start of the server: the connection to the persistence layer and the
\* health probe.
ServerInit ==
    /\ ZoneInit /\ ProcInit /\ SockInit /\ SrvInit /\ LimInit /\ RestInit
    /\ isProduction \in BOOLEAN

ServerNext ==
    \/ \E ok \in BOOLEAN : MongooseConnect(ok) /\ UNCHANGED otherThanServer
    \/ RetryConnectDB /\ UNCHANGED otherThanServer
    \/ OnDisconnected /\ UNCHANGED otherThanServer
    \/ OnReconnected /\ UNCHANGED otherThanServer
    \/ \E dt \in Delays : Tick(dt) /\ UNCHANGED otherThanServer
    \/ pc = "idle" /\ UNCHANGED otherThanZones
          /\ \E pingOk \in BOOLEAN : GetHealth(pingOk)
    \/ NextRequest /\ UNCHANGED otherThanZones

ServerSpec == ServerInit /\ [][ServerNext]_vars

-----------------------------------------------------------------------------
(* index.js: the rate limiting middleware *)

\* const MAX_REQUESTS = isProduction ? 100 : 1000
MAX_REQUESTS == IF isProduction THEN 100 ELSE 1000

\* requestCounts.set(ip, record)
set(counts, ip, record) ==
    [k \in DOMAIN counts \cup {ip} |-> IF k = ip THEN record ELSE counts[k]]

\* Mutant of rateLimit: the count is compared with > where >= is meant.
rateLimitOneMore(counts, ip, t) ==
    IF ip \notin DOMAIN counts \/ t > counts[ip].resetTime
    THEN [next |-> TRUE,
          counts |-> set(counts, ip,
                         [count |-> 1, resetTime |-> t + RATE_LIMIT_WINDOW])]
    ELSE IF counts[ip].count > MAX_REQUESTS
    THEN [next |-> FALSE, counts |-> counts]
    ELSE [next |-> TRUE,
          counts |-> set(counts, ip,
                         [counts[ip] EXCEPT !.count = @ + 1])]

\* Mutant of rateLimit: a request answered 429 is counted too.
rateLimitCounting(counts, ip, t) ==
    IF ip \notin DOMAIN counts \/ t > counts[ip].resetTime
    THEN [next |-> TRUE,
          counts |-> set(counts, ip,
                         [count |-> 1, resetTime |-> t + RATE_LIMIT_WINDOW])]
    ELSE [next |-> counts[ip].count < MAX_REQUESTS,
          counts |-> set(counts, ip,
                         [counts[ip] EXCEPT !.count = @ + 1])]

\* The middleware's decision for a request of ip at time t: whether next()
\* is called, and the Map it leaves.
rateLimit(counts, ip, t) ==
    IF ip \notin DOMAIN counts
    THEN [next |-> TRUE,
          counts |-> set(counts, ip,
                         [count |-> 1, resetTime |-> t + RATE_LIMIT_WINDOW])]
    ELSE IF t > counts[ip].resetTime
    THEN [next |-> TRUE,
          counts |-> set(counts, ip,
                         [count |-> 1, resetTime |-> t + RATE_LIMIT_WINDOW])]
    ELSE IF counts[ip].count >= MAX_REQUESTS
    THEN [next |-> FALSE, counts |-> counts]
    ELSE [next |-> TRUE,
          counts |-> set(counts, ip,
                         [counts[ip] EXCEPT !.count = @ + 1])]

\* The second client keeps to MaxOther requests a window.
Sends(ip, t) ==
    IF ip = "10.0.0.1" \/ ip \notin DOMAIN requestCounts THEN TRUE
    ELSE t > requestCounts[ip].resetTime \/ requestCounts[ip].count < MaxOther

\* app.use((req, res, next) => ...): a request of ip arrives dt after the
\* last one and is handed on to the routes, or answered 429.
RateLimit(ip, dt) ==
    LET t == now + dt
        r == rateLimit(requestCounts, ip, t)
        fresh == admitted[ip].n = 0 \/ t > admitted[ip].until
    IN
    /\ pc = "arriving"
    /\ Sends(ip, t)
    /\ now' = t
    /\ requestCounts' = r.counts
    /\ limited' = IF r.next THEN limited ELSE limited \cup {ip}
    /\ IF r.next
       THEN /\ pc' = "idle"
            /\ req' = [op |-> "none", ip |-> ip]
            /\ resp' = resp
            /\ admitted' = [admitted EXCEPT ![ip] =
                              IF fresh
                              THEN [n |-> 1, until |-> t + RATE_LIMIT_WINDOW]
                              ELSE [@ EXCEPT !.n = @ + 1]]
       ELSE /\ pc' = "responded"
            /\ req' = [op |-> "limit", ip |-> ip]
            /\ resp' = [op |-> "limit", status |-> 429, success |-> FALSE,
                        message |->
                            "Too many requests. Please try again later."]
            /\ UNCHANGED admitted
    /\ UNCHANGED <<zones, nextId, created, deleted>>

\* The response has gone out; the server waits for the next request to
\* arrive at the middleware.
NextArrival ==
    /\ pc = "responded"
    /\ pc' = "arriving"
    /\ req' = [op |-> "none"]
    /\ resp' = [op |-> "none", status |-> 0]
    /\ UNCHANGED <<zones, nextId, created, deleted, now, limVars>>

\* Time between two requests.
Gaps == {0, 60000, 60001}

\* The middleware in front of the routes, with the list route behind it.
LimiterInit ==
    /\ StoreInit /\ pc = "arriving"
    /\ ProcInit /\ SockInit /\ SrvInit /\ LimInit /\ RestInit
    /\ isProduction \in BOOLEAN

LimiterNext ==
    \/ \E ip \in IPs, dt \in Gaps :
          /\ now + dt <= MaxTime
          /\ RateLimit(ip, dt) /\ UNCHANGED otherThanLimiter
    \/ pc = "idle" /\ UNCHANGED otherThanZones
          /\ \E dbOk \in BOOLEAN : GetZones(dbOk)
    \/ NextArrival /\ UNCHANGED otherThanLimiter

LimiterSpec == LimiterInit /\ [][LimiterNext]_vars

-----------------------------------------------------------------------------
(* index.js: the cleanup of the rate limiter's Map *)

\* Mutant of cleanup: a record goes from its reset time on.
cleanupAtReset(counts, t) ==
    [ip \in {k \in DOMAIN counts : ~(t >= counts[k].resetTime)} |-> counts[ip]]

\* for (const [ip, record] of requestCounts.entries())
\*   if (now > record.resetTime) requestCounts.delete(ip)
cleanup(counts, t) ==
    [ip \in {k \in DOMAIN counts : ~(t > counts[k].resetTime)} |-> counts[ip]]

\* The interval fires, at its due time or, the event loop being busy, after.
Cleanup ==
    LET t == IF now < nextCleanup THEN nextCleanup ELSE now
    IN
    /\ proc = "running"
    /\ t <= MaxCleanupTime
    /\ now' = t
    /\ requestCounts' = cleanup(requestCounts, t)
    /\ nextCleanup' = nextCleanup + CLEANUP_INTERVAL
    /\ UNCHANGED <<zoneVars, admitted, limited, shadow>>

\* The middleware, followed in the Map that no cleanup touches as well.
RateLimitShadowed(ip, dt) ==
    /\ RateLimit(ip, dt)
    /\ shadow' = rateLimit(shadow, ip, now + dt).counts
    /\ UNCHANGED nextCleanup

\* Time between two requests.
CleanupGaps == {0, 240000}

\* The middleware and its cleanup, with the list route behind them.
CleanupSpecInit ==
    /\ StoreInit /\ pc = "arriving"
    /\ ProcInit /\ SockInit /\ SrvInit /\ LimInit /\ RestInit
    /\ isProduction \in BOOLEAN

CleanupNext ==
    \/ \E ip \in IPs, dt \in CleanupGaps :
          /\ now + dt <= MaxCleanupTime
          /\ RateLimitShadowed(ip, dt)
          /\ UNCHANGED otherThanLimiterAndCleanup
    \/ pc = "idle" /\ UNCHANGED otherThanZones
          /\ \E dbOk \in BOOLEAN : GetZones(dbOk)
    \/ NextArrival /\ UNCHANGED otherThanLimiter
    \/ Cleanup /\ UNCHANGED otherThanLimiterAndCleanup

CleanupSpec == CleanupSpecInit /\ [][CleanupNext]_vars

-----------------------------------------------------------------------------
(* index.js: gracefulShutdown *)

\* setTimeout(() => { process.exit(1); }, 10000)
FORCE_EXIT_MS == 10000

Signals == {"SIGTERM", "SIGINT"}

\* process.exit(code): the first call ends the process.
Exit(code) ==
    /\ proc' = "exited"
    /\ exitCode' = code

\* Mutant of arm: the force-exit timer is not set.
armNothing(ts, t) == ts

\* setTimeout(..., 10000) at time t.
arm(ts, t) == ts \cup {t + FORCE_EXIT_MS}

\* process.on('SIGTERM' | 'SIGINT', () => gracefulShutdown(signal)):
\* server.close(callback) stops the server from accepting connections and
\* keeps the callback for its 'close' event, also when the server is closing
\* or closed already; then the force-exit timer is set.
GracefulShutdown(signal) ==
    /\ proc # "exited"
    /\ Len(closers) < MaxSignals
    /\ now + FORCE_EXIT_MS <= MaxTime
    /\ httpServer' = IF httpServer = "listening" THEN "closing" ELSE httpServer
    /\ closers' = Append(closers, [by |-> signal, pc |-> "waiting"])
    /\ timers' = arm(timers, now)
    /\ proc' = "closing"
    /\ UNCHANGED <<now, exitCode>>

\* The last connection to the server has ended: 'close' is emitted.
OnServerClose ==
    /\ proc # "exited"
    /\ httpServer = "closing"
    /\ httpServer' = "closed"
    /\ UNCHANGED <<proc, now, exitCode, closers, timers>>

\* A callback of server.close runs: it calls mongoose.connection.close().
CloseCallback(i) ==
    /\ proc # "exited"
    /\ httpServer = "closed"
    /\ closers[i].pc = "waiting"
    /\ closers' = [closers EXCEPT ![i].pc = "closingDb"]
    /\ UNCHANGED <<proc, now, exitCode, httpServer, timers>>

\* await mongoose.connection.close() settles: process.exit(0) when it
\* resolved, process.exit(1) from the catch block when it threw.
ConnectionClose(i, ok) ==
    /\ proc # "exited"
    /\ closers[i].pc = "closingDb"
    /\ closers' = [closers EXCEPT ![i].pc = IF ok THEN "closed" ELSE "failed"]
    /\ Exit(IF ok THEN 0 ELSE 1)
    /\ UNCHANGED <<now, httpServer, timers>>

\* A force-exit timer is due.
ForceExit ==
    /\ proc # "exited"
    /\ \E due \in timers : due <= now /\ timers' = timers \ {due}
    /\ Exit(1)
    /\ UNCHANGED <<now, httpServer, closers>>

\* Time passes, up to the next timer that is due.
Elapse(dt) ==
    /\ proc # "exited"
    /\ now + dt <= MaxTime
    /\ \A due \in timers : now + dt <= due
    /\ now' = now + dt
    /\ UNCHANGED <<proc, exitCode, httpServer, closers, timers>>

Steps == {5000}

otherThanShutdown ==
    <<zoneVars, isProduction, sockVars, limVars, concVars, cleanVars,
      readyState, dbPc, retries, attempts>>

\* The server from its start to its exit on a signal.
ShutdownInit ==
    /\ ZoneInit /\ ProcInit /\ SockInit /\ SrvInit /\ LimInit /\ RestInit
    /\ isProduction \in BOOLEAN

ShutdownNext ==
    \/ \E signal \in Signals :
          GracefulShutdown(signal) /\ UNCHANGED otherThanShutdown
    \/ OnServerClose /\ UNCHANGED otherThanShutdown
    \/ \E i \in 1..Len(closers) :
          CloseCallback(i) /\ UNCHANGED otherThanShutdown
    \/ \E i \in 1..Len(closers), ok \in BOOLEAN :
          ConnectionClose(i, ok) /\ UNCHANGED otherThanShutdown
    \/ ForceExit /\ UNCHANGED otherThanShutdown
    \/ \E dt \in Steps : Elapse(dt) /\ UNCHANGED otherThanShutdown

ShutdownSpec == ShutdownInit /\ [][ShutdownNext]_vars

\* Time passes and a timer that is due fires.
ShutdownFairSpec ==
    /\ ShutdownSpec
    /\ WF_vars(\E dt \in Steps : Elapse(dt) /\ UNCHANGED otherThanShutdown)
    /\ WF_vars(ForceExit /\ UNCHANGED otherThanShutdown)

-----------------------------------------------------------------------------
(* routes/zoneRoutes.js: handlers in progress at the same time *)

\* Mutant of findByIdAndDelete: the document is read and left in place.
findByIdAndRead(zs, id) == [doc |-> findById(zs, id), zones |-> zs]

\* Zone.findByIdAndDelete(id): the persistence layer finds and removes the
\* document in one operation.
findByIdAndDelete(zs, id) ==
    [doc |-> findById(zs, id), zones |-> remove(zs, id)]

\* Mutant of afterStore: an operation that failed is issued again.
afterStoreRetry(ok) == IF ok THEN "settled" ELSE "awaiting"

\* What follows the awaited operation: the rest of the try block when it
\* resolved and the catch block when it threw; both send the answer.
afterStore(ok) == "settled"

Run(h, r) == inflight' = [inflight EXCEPT ![h] = r]

\* The creates that have not reached the persistence layer yet.
Creating ==
    {h \in Handlers :
        inflight[h].pc = "awaiting" /\ inflight[h].req.op = "create"}

\* A handler is invoked and runs to its await, or to the answer it sends
\* without one.
Begin(h, q) ==
    /\ proc = "running"
    /\ inflight[h].pc = "free"
    /\ q.op = "create" => nextId + Cardinality(Creating) < MaxZones
    /\ IF q.op = "create" /\ (Falsy(q.name) \/ q.geometry = Undef)
       THEN Run(h, [Free EXCEPT
                      !.pc = "replied", !.req = q, !.replies = 1,
                      !.resp = [status |-> 400, success |-> FALSE,
                                message |-> "Name and geometry are required"]])
       ELSE Run(h, [Free EXCEPT
                      !.pc = "awaiting", !.req = q, !.calls = 1,
                      !.stored = q.op = "delete" /\ q.id \in Ids(zones)])
    /\ UNCHANGED <<zones, nextId, created, deleted>>

\* The awaited operation settles: the persistence layer has carried it out,
\* which takes an established connection, or the operation has failed (the
\* driver gives up after its timeouts).  The handler goes on to its answer.
Exec(h, ok) ==
    LET q == inflight[h].req
        settle(r) ==
            Run(h, [inflight[h] EXCEPT
                      !.pc = afterStore(ok), !.resp = r,
                      !.calls = IF afterStore(ok) = "awaiting"
                                THEN @ + 1 ELSE @])
        newZone == NewZone(nextId + 1, q.name.s, q.geometry)
        r == findByIdAndDelete(zones, q.id)
        found == SelectSeq(zones,
                     LAMBDA z : geoIntersects(<<parseFloat(q.lng).v,
                                                parseFloat(q.lat).v>>,
                                              OuterRing(z)))
    IN
    /\ proc = "running"
    /\ inflight[h].pc = "awaiting"
    /\ ok => readyState = 1
    /\ IF ~ok
       THEN /\ settle([status |-> 500, success |-> FALSE])
            /\ UNCHANGED <<zones, nextId, created, deleted>>
       ELSE CASE q.op = "create" ->
                   /\ zones' = save(zones, newZone)
                   /\ nextId' = nextId + 1
                   /\ created' = created \cup {<<newZone._id, q.geometry>>}
                   /\ settle([status |-> 201, success |-> TRUE,
                              zone |-> newZone])
                   /\ UNCHANGED deleted
              [] q.op = "list" ->
                   /\ settle([status |-> 200, success |-> TRUE,
                              count |-> Len(find(zones)),
                              zones |-> find(zones)])
                   /\ UNCHANGED <<zones, nextId, created, deleted>>
              [] q.op = "check" ->
                   /\ settle([status |-> 200, success |-> TRUE,
                              isInDangerZone |-> Len(found) > 0,
                              zones |-> found])
                   /\ UNCHANGED <<zones, nextId, created, deleted>>
              [] q.op = "delete" ->
                   /\ zones' = r.zones
                   /\ deleted' = IF r.doc = <<>> THEN deleted
                                 ELSE deleted \cup {q.id}
                   /\ IF r.doc = <<>>
                      THEN settle([status |-> 404, success |-> FALSE,
                                   message |-> "Zone not found"])
                      ELSE settle([status |-> 200, success |-> TRUE,
                                   zone |-> r.doc[1]])
                   /\ UNCHANGED <<nextId, created>>

\* res.status(...).json(...): the answer goes out.
Reply(h) ==
    /\ proc = "running"
    /\ inflight[h].pc = "settled"
    /\ Run(h, [inflight[h] EXCEPT !.pc = "replied", !.replies = @ + 1])
    /\ UNCHANGED <<zones, nextId, created, deleted>>

\* The invocation is over; the next request gets a new one.
Return(h) ==
    /\ inflight[h].pc = "replied"
    /\ Run(h, Free)
    /\ UNCHANGED <<zones, nextId, created, deleted>>

\* Requests served at the same time.
ConcurrentRequests ==
    {[op |-> "create", name |-> Str(<<"a">>),
      geometry |-> Polygon(TriangleRing)],
     [op |-> "create", name |-> Undef, geometry |-> Polygon(TriangleRing)],
     [op |-> "list"],
     [op |-> "check", lat |-> Num(1), lng |-> Num(1)]}
      \cup {[op |-> "delete", id |-> ObjectId(n)] : n \in 1..MaxZones}

otherThanHandlers ==
    <<req, resp, pc, isProduction, proc, now, sockVars, srvVars, limVars,
      cleanVars, shutVars>>

\* The zone routes with several requests in progress, while connectDB
\* connects, or gives up and ends the process.
ConcurrentInit ==
    /\ ZoneInit /\ ProcInit /\ SockInit /\ SrvInit /\ LimInit /\ RestInit
    /\ isProduction \in BOOLEAN

ConcurrentNext ==
    \/ \E h \in Handlers, q \in ConcurrentRequests :
          Begin(h, q) /\ UNCHANGED otherThanHandlers
    \/ \E h \in Handlers, ok \in BOOLEAN :
          Exec(h, ok) /\ UNCHANGED otherThanHandlers
    \/ \E h \in Handlers : Reply(h) /\ UNCHANGED otherThanHandlers
    \/ \E h \in Handlers : Return(h) /\ UNCHANGED otherThanHandlers
    \/ \E ok \in BOOLEAN : MongooseConnect(ok) /\ UNCHANGED otherThanServer
    \/ RetryConnectDB /\ UNCHANGED otherThanServer

ConcurrentSpec == ConcurrentInit /\ [][ConcurrentNext]_vars

\* The awaited operations settle and the answers go out.
ConcurrentFairSpec ==
    /\ ConcurrentSpec
    /\ \A h \in Handlers :
          /\ WF_vars(\E ok \in BOOLEAN :
                        Exec(h, ok) /\ UNCHANGED otherThanHandlers)
          /\ WF_vars(Reply(h) /\ UNCHANGED otherThanHandlers)

-----------------------------------------------------------------------------
(* Properties *)

RingOf(geometry) == geometry.coordinates[1]

\* A ring as the data model wants it: at least 4 vertices, first = last.
ClosedRing(ring) ==
    /\ Len(ring) >= 4
    /\ ring[1][1] = ring[Len(ring)][1]
    /\ ring[1][2] = ring[Len(ring)][2]

\* C1: every stored zone has an outer ring of at least 4 vertices whose first
\* vertex equals its last in both coordinates, and its geometry is the one
\* that was submitted when it was created.
C1_StoredGeometryValid ==
    \A i \in 1..Len(zones) :
        /\ zones[i].geometry.coordinates # <<>>
        /\ ClosedRing(RingOf(zones[i].geometry))
        /\ <<zones[i]._id, zones[i].geometry>> \in created

\* C1 witness: creates and a delete have run, invalid geometries were
\* refused on the way, and a zone is still stored.
C1_Witness ==
    /\ resp.op = "create" /\ resp.status = 400
    /\ req.geometry = Polygon(OpenLatRing)
    /\ Len(zones) = 1
    /\ deleted # {}

BadGeometry(geometry) ==
    /\ geometry # Undef
    /\ \/ geometry.coordinates = <<>>
       \/ ~ClosedRing(RingOf(geometry))

GoodName(name) ==
    /\ name.t = "str"
    /\ \E i \in 1..Len(name.s) : name.s[i] \notin WhiteSpace

\* C2: a create whose outer ring has fewer than 4 vertices or is not closed
\* is answered 400, never 201 or 500, whether or not the persistence layer is
\* reachable; with a valid name the failure is the schema's ValidationError.
C2_BadRingIs400 ==
    (resp.op = "create" /\ BadGeometry(req.geometry)) =>
        /\ resp.status = 400
        /\ GoodName(req.name) => resp.message = "Invalid zone data"

\* C2 witness: a ring open in the latitude only was refused while the
\* persistence layer was unreachable.
C2_Witness ==
    /\ resp.op = "create" /\ resp.status = 400
    /\ req.geometry = Polygon(OpenLatRing)
    /\ GoodName(req.name)
    /\ ~req.dbOk

\* C3: a create whose name is absent, not a string, empty or white space only
\* is answered 400, and every stored name is non-empty with no white space at
\* either end.
C3_NameValid ==
    /\ (resp.op = "create" /\ ~GoodName(req.name)) => resp.status = 400
    /\ \A i \in 1..Len(zones) :
          /\ zones[i].name # <<>>
          /\ Head(zones[i].name) \notin WhiteSpace
          /\ zones[i].name[Len(zones[i].name)] \notin WhiteSpace

\* C3 witness: a name with white space at both ends was stored.
C3_Witness ==
    /\ resp.op = "create" /\ resp.status = 201
    /\ req.name = Str(<<" ", "a", " ">>)
    /\ resp.zone.name = <<"a">>

\* C4: a successful list holds, for every zone created and not deleted since,
\* exactly one record with the id that create assigned, and that record has
\* the geometry that was submitted.
C4_CreateListRoundTrip ==
    (resp.op = "list" /\ resp.status = 200) =>
        \A c \in created :
            c[1] \notin deleted =>
                /\ Cardinality({i \in 1..Len(resp.zones) :
                                   resp.zones[i]._id = c[1]}) = 1
                /\ \A i \in 1..Len(resp.zones) :
                      resp.zones[i]._id = c[1] =>
                          resp.zones[i].geometry = c[2]

\* C4 witness: a list answered after two creates and the delete of one of
\* the two zones.
C4_Witness ==
    /\ resp.op = "list" /\ resp.status = 200
    /\ Len(resp.zones) = 1
    /\ Cardinality(created) = 2
    /\ deleted # {}

\* The point a request names, once its lat and lng are numbers.
PointOf(lng, lat) == <<parseFloat(lng).v, parseFloat(lat).v>>

NumericBody == req.lat.t = "num" /\ req.lng.t = "num"

\* C5: a check of a numeric point outside every stored polygon (persistence
\* reachable) is answered 200 with no dangerous zone, isInDangerZone false
\* and the message 'Location is safe'.
C5_OutsideIsSafe ==
    (/\ resp.op = "check" /\ NumericBody /\ req.dbOk
     /\ \A i \in 1..Len(zones) :
           ~geoIntersects(PointOf(req.lng, req.lat), OuterRing(zones[i])))
    => /\ resp.status = 200
       /\ resp.dangerousZones = <<>>
       /\ ~resp.isInDangerZone
       /\ resp.message = "Location is safe"

\* What the route does guarantee for C5: the same, for points off the
\* equator and off the prime meridian.
C5_OutsideIsSafeOffAxes ==
    (/\ resp.op = "check" /\ NumericBody /\ req.dbOk
     /\ req.lat.v # 0 /\ req.lng.v # 0
     /\ \A i \in 1..Len(zones) :
           ~geoIntersects(PointOf(req.lng, req.lat), OuterRing(zones[i])))
    => /\ resp.status = 200
       /\ resp.dangerousZones = <<>>
       /\ ~resp.isInDangerZone
       /\ resp.message = "Location is safe"

\* The point of the request is strictly inside zone i and in no other zone.
InsideOnly(i) ==
    /\ InInterior(PointOf(req.lng, req.lat), OuterRing(zones[i]))
    /\ \A j \in 1..Len(zones) :
          j # i => ~geoIntersects(PointOf(req.lng, req.lat), OuterRing(zones[j]))

\* C6: a check of a numeric point strictly inside exactly one stored polygon
\* is answered with exactly that zone and isInDangerZone true; in every
\* answer isInDangerZone is true iff dangerousZones is non-empty.
C6_InsideOneIsReported ==
    /\ (resp.op = "check" /\ NumericBody /\ req.dbOk) =>
          \A i \in 1..Len(zones) :
              InsideOnly(i) =>
                  /\ resp.status = 200
                  /\ resp.isInDangerZone
                  /\ resp.dangerousZones = <<zones[i]>>
    /\ (resp.op = "check" /\ resp.status = 200) =>
          (resp.isInDangerZone <=> resp.dangerousZones # <<>>)

\* What the route does guarantee for C6: the same, off the two axes.
C6_InsideOneIsReportedOffAxes ==
    /\ (resp.op = "check" /\ NumericBody /\ req.dbOk
          /\ req.lat.v # 0 /\ req.lng.v # 0) =>
          \A i \in 1..Len(zones) :
              InsideOnly(i) =>
                  /\ resp.status = 200
                  /\ resp.isInDangerZone
                  /\ resp.dangerousZones = <<zones[i]>>
    /\ (resp.op = "check" /\ resp.status = 200) =>
          (resp.isInDangerZone <=> resp.dangerousZones # <<>>)

\* A query parameter that is a decimal number from end to end.
IsDecimal(s) ==
    LET u == Unsigned(s)
        n == LeadingDigits(u)
        rest == SubSeq(u, n + 1, Len(u))
    IN  /\ n >= 1
        /\ \/ rest = <<>>
           \/ /\ Head(rest) = "."
              /\ Len(rest) >= 2
              /\ LeadingDigits(Tail(rest)) = Len(rest) - 1
Numeric(v) == v.t = "str" /\ IsDecimal(v.s)

\* The zones of the collection within d of p, as found in the answer zs:
\* each exactly once, no other, nearest first.
IsNearResult(zs, p, d) ==
    /\ Len(zs) = Cardinality({i \in 1..Len(zones) :
                                 Distance(p, OuterRing(zones[i])) <= d})
    /\ \A i \in 1..Len(zones) :
          Distance(p, OuterRing(zones[i])) <= d =>
              \E k \in 1..Len(zs) : zs[k] = zones[i]
    /\ \A k \in 1..Len(zs) :
          /\ \E i \in 1..Len(zones) : zs[k] = zones[i]
          /\ Distance(p, OuterRing(zs[k])) <= d
    /\ \A k \in 1..(Len(zs) - 1) :
          Distance(p, OuterRing(zs[k])) <= Distance(p, OuterRing(zs[k + 1]))

\* A nearby request for a numeric point with maxDistance absent or a
\* non-negative number, the persistence layer reachable.
NearbyCase ==
    /\ resp.op = "nearby" /\ req.dbOk
    /\ Numeric(req.lat) /\ Numeric(req.lng)
    /\ \/ req.maxDistance = Undef
       \/ Numeric(req.maxDistance) /\ parseFloat(req.maxDistance).v >= 0

\* C7 as claimed: the answer holds exactly the zones within d meters of P,
\* nearest first, d being the number given as maxDistance, or 5000.
C7_NearWithinD ==
    NearbyCase =>
        /\ resp.status = 200
        /\ IsNearResult(resp.zones, PointOf(req.lng, req.lat),
                        IF req.maxDistance = Undef THEN 50000
                        ELSE parseFloat(req.maxDistance).v)

\* C7 as amended: the same with d cut down to a whole number of meters.
C7_NearWithinWholeMeters ==
    NearbyCase =>
        /\ resp.status = 200
        /\ IsNearResult(resp.zones, PointOf(req.lng, req.lat),
                        IF req.maxDistance = Undef THEN 50000
                        ELSE 10 * (parseFloat(req.maxDistance).v \div 10))

\* C7 witness: two zones are answered, the one stored last first because it
\* is the nearer one.
C7_Witness ==
    /\ resp.op = "nearby" /\ resp.status = 200
    /\ Len(zones) = 2 /\ Len(resp.zones) = 2
    /\ resp.zones[1] = zones[2]
    /\ Distance(PointOf(req.lng, req.lat), OuterRing(zones[2]))
         < Distance(PointOf(req.lng, req.lat), OuterRing(zones[1]))

\* C8: a nearby query whose lat or lng is absent or not a number, and a
\* bounding-box query with an edge absent or not a number, is answered 400
\* without a query to the store (here: even with the store reachable).
C8_BadParametersAre400 ==
    /\ (resp.op = "nearby" /\ req.dbOk
          /\ (~Numeric(req.lat) \/ ~Numeric(req.lng))) =>
          (resp.status = 400 /\ ~resp.queried)
    /\ (resp.op = "within" /\ req.dbOk
          /\ (~Numeric(req.minLat) \/ ~Numeric(req.minLng)
                \/ ~Numeric(req.maxLat) \/ ~Numeric(req.maxLng))) =>
          (resp.status = 400 /\ ~resp.queried)

\* What the routes do guarantee for C8: 400 without a query when a
\* parameter is absent or empty.
Missing(v) == v = Undef \/ v = Str(<<>>)
C8_MissingParametersAre400 ==
    /\ (resp.op = "nearby" /\ (Missing(req.lat) \/ Missing(req.lng))) =>
          (resp.status = 400 /\ ~resp.queried)
    /\ (resp.op = "within"
          /\ (Missing(req.minLat) \/ Missing(req.minLng)
                \/ Missing(req.maxLat) \/ Missing(req.maxLng))) =>
          (resp.status = 400 /\ ~resp.queried)

\* A delete request is being answered in this step.
DeleteStep == pc = "idle" /\ req'.op = "delete"

C9_DeleteAnswer ==
    (DeleteStep /\ req'.dbOk) =>
        /\ req'.id \in Ids(zones) =>
              /\ resp'.status = 200
              /\ \E i \in 1..Len(zones) :
                    zones[i]._id = req'.id /\ resp'.zone = zones[i]
              /\ req'.id \notin Ids(zones')
        /\ req'.id \in deleted => resp'.status = 404

C9_NoDeletedZoneInResults ==
    /\ (resp.op \in {"list", "nearby", "within"} /\ resp.status = 200) =>
          \A k \in 1..Len(resp.zones) : resp.zones[k]._id \notin deleted
    /\ (resp.op = "check" /\ resp.status = 200) =>
          \A k \in 1..Len(resp.dangerousZones) :
              resp.dangerousZones[k]._id \notin deleted

\* C9: with the persistence layer reachable, a delete of a stored id answers
\* 200 with the record and removes it, a delete of an id deleted before
\* answers 404, and no list or spatial query answers a deleted zone.
C9_DeleteTwice == [][C9_DeleteAnswer]_vars /\ []C9_NoDeletedZoneInResults

\* C9 witness: the second delete of an id was answered 404.
C9_Witness ==
    /\ resp.op = "delete" /\ resp.status = 404
    /\ req.id \in deleted

MalformedId(id) == Len(id) # 24 \/ \E i \in 1..Len(id) : id[i] \notin HexChars

\* C10: a delete with a malformed id is answered 400, not 404, and leaves the
\* stored zones as they were.
C10_MalformedIdIs400 ==
    [][(DeleteStep /\ MalformedId(req'.id)) =>
          (resp'.status = 400 /\ zones' = zones)]_vars

\* C10 witness: a 24-character id that is not hexadecimal was refused while
\* zones were stored.
C10_Witness ==
    /\ resp.op = "delete" /\ resp.status = 400
    /\ Len(req.id) = 24
    /\ zones # <<>>

-----------------------------------------------------------------------------
(* Properties of the real-time channel *)

\* Number of times broadcast e occurs in a sequence of broadcasts.
Count(seq, e) == Cardinality({i \in 1..Len(seq) : seq[i] = e})

\* Number of times broadcast e was handed to connection c and not lost.
Handed(c, e) == Count(received[c], e) + Count(outbox[c], e)

\* A signal was handled in the step that led to this state.
SignalHandled == lastSignal.from # ""

\* Every broadcast went, once, to each connection open at its publish that
\* is still open, and no peer has received a broadcast twice.
OncePerOpenConnection ==
    \A e \in 1..Len(events) :
        /\ \A c \in events[e].open : link[c] = "open" => Handed(c, e) = 1
        /\ \A c \in Sockets : Count(received[c], e) <= 1

\* C11: each alert signal handled so far has caused exactly one broadcast,
\* and each broadcast went exactly once to every connection open at its
\* publish.
C11_OneBroadcastPerSignal ==
    /\ Len(events) = clock
    /\ \A k \in 1..clock :
          Cardinality({e \in 1..Len(events) : events[e].signal = k}) = 1
    /\ OncePerOpenConnection

\* What the handler does guarantee for C11: a signal whose payload is not
\* undefined or null causes exactly one broadcast, and broadcasts are handed
\* over once.
C11_OneBroadcastPerObjectSignal ==
    /\ (SignalHandled /\ lastSignal.data.t \notin {"undef", "null"}) =>
          /\ ~lastSignal.threw
          /\ events # <<>>
          /\ events[Len(events)].signal = clock
          /\ Cardinality({e \in 1..Len(events) : events[e].signal = clock}) = 1
    /\ OncePerOpenConnection

\* C12: whatever the interleaving, a broadcast is written to or received by
\* a connection only if that connection was open when it was published.
C12_OnlyOpenAtPublish ==
    \A c \in Sockets :
        /\ \A i \in 1..Len(received[c]) : c \in events[received[c][i]].open
        /\ \A i \in 1..Len(outbox[c]) : c \in events[outbox[c][i]].open

\* C12 witness: of two broadcasts, the first was published before a
\* connection joined and the second after another one had left; the late
\* joiner has received the second only, the leaver the first only.
C12_Witness ==
    /\ Len(events) = 2
    /\ \E c, d \in Sockets :
          /\ c \in events[1].open /\ c \notin events[2].open
          /\ link[c] = "closed" /\ received[c] = <<1>>
          /\ d \notin events[1].open /\ d \in events[2].open
          /\ received[d] = <<2>>

\* C13: every alert signal, whatever its payload, is answered by a
\* broadcast; the handler does not throw.
C13_EverySignalBroadcasts ==
    SignalHandled =>
        /\ ~lastSignal.threw
        /\ events # <<>>
        /\ events[Len(events)].signal = clock

\* C14 as claimed: a broadcast goes to every open connection but the one
\* that sent the signal.
C14_AllButEmitter ==
    \A e \in 1..Len(events) :
        events[e].to = events[e].open \ {events[e].from}

\* C14 as amended: a broadcast goes to every open connection, the one that
\* sent the signal included.
C14_AllIncludingEmitter ==
    \A e \in 1..Len(events) :
        /\ events[e].to = events[e].open
        /\ events[e].from \in events[e].to
        /\ \A c \in events[e].open : link[c] = "open" => Handed(c, e) = 1

\* C14 witness: with two connections open, the sender has received its own
\* broadcast and so has the other connection.
C14_Witness ==
    \E e \in 1..Len(events) :
        /\ Cardinality(events[e].open) = 2
        /\ \A c \in events[e].open : Count(received[c], e) = 1
        /\ Count(received[events[e].from], e) = 1

\* A message or location the signal supplies.
SuppliedMessage(data) ==
    data.t = "obj" /\ data.message.t = "str" /\ data.message.s # <<>>
SuppliedLocation(data) == data.t = "obj" /\ data.location.t = "obj"
Absent(data, name) ==
    data.t # "obj" \/ data[name] = Undef \/ data[name] = Null

C16_FailureIsIsolated ==
    [][\A c \in Sockets :
          (link[c] = "open" /\ link'[c] = "error") =>
              /\ live' = live \ {c}
              /\ \A s \in Sockets \ {c} :
                    /\ link'[s] = link[s]
                    /\ outbox'[s] = outbox[s]
                    /\ received'[s] = received[s]
                    /\ \A i \in 1..Len(outbox[c]) :
                          (s \in events[outbox[c][i]].open /\ link[s] = "open")
                              => Handed(s, outbox[c][i]) = 1]_vars

\* C16 witness: a broadcast to two connections failed on one and was
\* received by the other, which is still registered.
C16_Witness ==
    \E c, s \in Sockets, e \in 1..Len(events) :
        /\ c # s
        /\ {c, s} \subseteq events[e].to
        /\ link[c] = "error" /\ Count(received[c], e) = 0
        /\ s \in live /\ Count(received[s], e) = 1

-----------------------------------------------------------------------------
(* Properties of the start of the server and of the health probe *)

\* C17: connectDB makes at most five attempts; it gives up, with
\* process.exit(1), after exactly five failed ones; after a success the
\* process has not exited.
C17_FiveAttempts ==
    /\ attempts <= 5
    /\ dbPc = "exit" => (attempts = 5 /\ exitCode = 1)
    /\ dbPc = "done" => exitCode = -1

\* What connectDB does guarantee for C17: the first attempt and five retries,
\* 5 seconds after each failure; exit code 1 after the sixth failure; no
\* attempt and no exit after a success.
C17_SixAttempts ==
    /\ [](attempts <= 6)
    /\ [](dbPc = "exit" => (attempts = 6 /\ exitCode = 1))
    /\ [](dbPc = "done" => exitCode = -1)
    /\ [][dbPc = "done" => (attempts' = attempts /\ dbPc' = "done")]_vars
    /\ [][(dbPc = "backoff" /\ dbPc' = "connecting") => now' = now + 5000]_vars

\* C18: the health probe answers 200 with database 'connected' exactly when
\* the connection is in the connected state and the ping succeeds; otherwise
\* 503, with 'disconnected' when the connection is not in the connected state
\* and 'error' when the ping fails; every answer carries uptime and timestamp.
C18_HealthAnswer ==
    resp.op = "health" =>
        /\ resp.status \in {200, 503}
        /\ resp.status = 200 <=> (req.readyState = 1 /\ req.pingOk)
        /\ resp.database = "connected" <=> (req.readyState = 1 /\ req.pingOk)
        /\ req.readyState # 1 => resp.database = "disconnected"
        /\ (req.readyState = 1 /\ ~req.pingOk) => resp.database = "error"
        /\ {"uptime", "timestamp"} \subseteq DOMAIN resp
        /\ resp.uptime.t = "num" /\ resp.timestamp.t = "str"

\* C18 witness: after a failed and a successful attempt to connect, a probe
\* found the connection up and the ping failing.
C18_Witness ==
    /\ resp.op = "health" /\ resp.status = 503 /\ resp.database = "error"
    /\ req.readyState = 1 /\ ~req.pingOk
    /\ attempts = 2 /\ now > 0

-----------------------------------------------------------------------------
(* Properties of the error responses *)

\* The message a route gives with a 500, and the one the global handler
\* falls back to.
GenericMessage(op) ==
    CASE op = "create" -> "Failed to create zone"
      [] op = "list" -> "Failed to fetch zones"
      [] op = "nearby" -> "Failed to find nearby zones"
      [] op = "check" -> "Failed to check location"
      [] op = "within" -> "Failed to find zones within area"
      [] op = "delete" -> "Failed to delete zone"
      [] OTHER -> "Internal server error"

GenericError(op) ==
    IF op = "error" THEN "Something went wrong" ELSE "Internal server error"

\* C19: in production a 500 of a zone route or of the global error handler
\* carries the generic texts of its source only, whatever the error was; in
\* development it carries the detail of the error.
C19_ProductionRedacts ==
    resp.status = 500 =>
        /\ isProduction =>
              /\ resp.message = GenericMessage(resp.op)
              /\ resp.error = GenericError(resp.op)
        /\ ~isProduction =>
              resp.error = IF resp.op = "error" THEN req.err.stack
                           ELSE resp.cause

\* What the code does guarantee for C19: the same for the zone routes, and
\* for the global handler the redaction of the stack only.
C19_ZoneRoutesRedact ==
    resp.status = 500 =>
        /\ (isProduction /\ resp.op # "error") =>
              /\ resp.message = GenericMessage(resp.op)
              /\ resp.error = GenericError(resp.op)
        /\ (isProduction /\ resp.op = "error") =>
              resp.error = GenericError(resp.op)
        /\ ~isProduction =>
              resp.error = IF resp.op = "error" THEN req.err.stack
                           ELSE resp.cause

-----------------------------------------------------------------------------
(* Properties of the rate limiter *)

\* The number of requests a client may have handed on in one window.
Allowed == IF isProduction THEN 100 ELSE 1000

\* The middleware is deciding on a request in this step.
LimiterStep == pc = "arriving" /\ pc' # "arriving"

C20_WithinAllowed ==
    /\ \A ip \in IPs : admitted[ip].n <= Allowed
    /\ resp.status = 429 =>
          (pc = "responded" /\ resp.op = "limit" /\ req.op = "limit")

C20_FurtherIs429 ==
    LimiterStep =>
        /\ (/\ admitted[req'.ip].n = Allowed
            /\ now' <= admitted[req'.ip].until) => resp'.status = 429
        /\ resp'.status = 429 =>
              /\ pc' = "responded"
              /\ UNCHANGED <<zones, nextId, created, deleted, admitted>>

\* C20: a client has at most 100 requests (1000 outside production) handed
\* on within one rate-limit window; each further request of that client in
\* the window is answered 429, and a request answered 429 reaches no route
\* handler and leaves the zone store alone.
C20_RateLimit == []C20_WithinAllowed /\ [][C20_FurtherIs429]_vars

\* C20 witness: in production, in a second window, a client is answered 429
\* after 100 of its requests were handed on, while the other client has had
\* one request handed on.
C20_Witness ==
    /\ isProduction
    /\ resp.status = 429
    /\ admitted[req.ip].n = 100
    /\ now > 60000
    /\ \E ip \in IPs : ip # req.ip /\ admitted[ip].n = 1

\* Outside production the 1001st request of a window is answered 429.
C20_WitnessDevelopment ==
    ~isProduction /\ resp.status = 429 /\ admitted[req.ip].n = 1000

-----------------------------------------------------------------------------
(* Properties of the writes to the zone store *)

\* A create request is being answered in this step.
CreateStep == pc = "idle" /\ req'.op = "create"

\* Smallest box around the outer ring of a zone.
BoxLo(z) ==
    <<Min({OuterRing(z)[i][1] : i \in 1..Len(OuterRing(z))}),
      Min({OuterRing(z)[i][2] : i \in 1..Len(OuterRing(z))})>>
BoxHi(z) ==
    <<-Min({-OuterRing(z)[i][1] : i \in 1..Len(OuterRing(z))}),
      -Min({-OuterRing(z)[i][2] : i \in 1..Len(OuterRing(z))})>>

C21_FailedCreateWritesNothing ==
    CreateStep =>
        /\ resp'.status \in {201, 400, 500}
        /\ resp'.status # 201 =>
              /\ zones' = zones
              /\ ObjectId(nextId + 1) \notin Ids(zones')
        /\ resp'.status = 201 =>
              /\ zones' = Append(zones, resp'.zone)
              /\ resp'.zone._id \notin Ids(zones)

C21_CreatedIsVisible ==
    (resp.op = "create" /\ resp.status = 201) =>
        LET z == resp.zone
            p == OuterRing(z)[1]
        IN  /\ \E i \in 1..Len(find(zones)) : find(zones)[i] = z
            /\ \A found \in near(zones, p, 0) :
                  \E k \in 1..Len(found) : found[k] = z
            /\ geoIntersects(p, OuterRing(z))
            /\ geoWithin(z, BoxLo(z), BoxHi(z))

Answering(ops) == pc = "idle" /\ pc' = "responded" /\ req'.op \in ops

\* C22: a stored zone keeps its id, name and geometry for as long as it is
\* stored; list, nearby, check, within and health requests (and every step
\* that is not a create or a delete) leave the collection as it is; a create
\* adds at most one zone, with a new id, after the stored ones; a delete
\* answered 200 removes the zone with the given id and no other, and any
\* other delete removes nothing.
C22_ZonesImmutable ==
    [][/\ \A i \in 1..Len(zones), j \in 1..Len(zones') :
             zones'[j]._id = zones[i]._id => zones'[j] = zones[i]
       /\ Answering({"list", "nearby", "check", "within", "health"}) =>
             zones' = zones
       /\ ~Answering({"create", "delete"}) => zones' = zones
       /\ Answering({"create"}) =>
             \/ zones' = zones
             \/ /\ Len(zones') = Len(zones) + 1
                /\ SubSeq(zones', 1, Len(zones)) = zones
                /\ zones'[Len(zones')]._id \notin Ids(zones) \cup deleted
       /\ Answering({"delete"}) =>
             zones' = IF resp'.status = 200
                      THEN SelectSeq(zones, LAMBDA z : z._id # req'.id)
                      ELSE zones]_vars

\* C22 witness: the zone created first is still stored as it was created,
\* after the zone created second was deleted and a health request answered.
C22_Witness ==
    /\ resp.op = "health"
    /\ Len(zones) = 1
    /\ zones[1]._id = ObjectId(1)
    /\ <<zones[1]._id, zones[1].geometry>> \in created
    /\ deleted = {ObjectId(2)}

\* The mapping a create is asked to store.
Supplied(properties) ==
    IF properties = Undef THEN DEFAULT_PROPERTIES ELSE properties

\* C25: a create answered 201 has stored, and answers, the properties that
\* were supplied, and the empty mapping when none were.
C25_PropertiesPersisted ==
    (resp.op = "create" /\ resp.status = 201) =>
        /\ resp.zone.properties = Supplied(req.properties)
        /\ \E i \in 1..Len(zones) :
              /\ zones[i]._id = resp.zone._id
              /\ zones[i].properties = Supplied(req.properties)

\* What the route does for C25: the stored and the answered properties are
\* the empty mapping, whatever was supplied.
C25_PropertiesDropped ==
    /\ \A i \in 1..Len(zones) : zones[i].properties = DEFAULT_PROPERTIES
    /\ (resp.op = "create" /\ resp.status = 201) =>
          resp.zone.properties = DEFAULT_PROPERTIES

-----------------------------------------------------------------------------
(* Properties of the handlers in progress at the same time *)

\* Handler h has the answer of the persistence layer to its delete of id,
\* a delete it began while the zone was stored.
DeleteDone(h, id) ==
    /\ inflight[h].pc \in {"settled", "replied"}
    /\ inflight[h].req.op = "delete" /\ inflight[h].req.id = id
    /\ inflight[h].stored
    /\ inflight[h].resp.status # 500

\* A record as a create stored it.
WholeZone(z) ==
    /\ DOMAIN z = {"_id", "name", "geometry", "properties"}
    /\ <<z._id, z.geometry>> \in created
    /\ z.name = <<"a">> /\ z.properties = DEFAULT_PROPERTIES

C23_OneDeleteWins ==
    /\ \A h1, h2 \in Handlers, n \in 1..MaxZones :
          (h1 # h2 /\ DeleteDone(h1, ObjectId(n)) /\ DeleteDone(h2, ObjectId(n)))
            => \E w, l \in {h1, h2} :
                  /\ inflight[w].resp.status = 200
                  /\ inflight[w].resp.zone._id = ObjectId(n)
                  /\ WholeZone(inflight[w].resp.zone)
                  /\ inflight[l].resp.status = 404
    /\ \A h \in Handlers :
          (inflight[h].req.op \in {"list", "check"}
             /\ inflight[h].resp.status = 200) =>
              /\ \A k \in 1..Len(inflight[h].resp.zones) :
                    WholeZone(inflight[h].resp.zones[k])
              /\ \A j, k \in 1..Len(inflight[h].resp.zones) :
                    inflight[h].resp.zones[j]._id = inflight[h].resp.zones[k]._id
                      => j = k

\* The store carries out the operation of handler h in this step.
ExecStep(h) ==
    /\ inflight[h].pc = "awaiting"
    /\ inflight'[h].pc = "settled"
    /\ inflight'[h].resp.status # 500

C23_AnswerOfTheMoment ==
    \A h \in Handlers :
        ExecStep(h) =>
            /\ inflight[h].req.op = "delete" =>
                  /\ inflight'[h].resp.status =
                        IF inflight[h].req.id \in Ids(zones) THEN 200 ELSE 404
                  /\ inflight[h].req.id \notin Ids(zones')
                  /\ \A i \in 1..Len(zones) :
                        zones[i]._id # inflight[h].req.id =>
                            \E j \in 1..Len(zones') : zones'[j] = zones[i]
            /\ inflight[h].req.op = "list" =>
                  inflight'[h].resp.zones = zones
            /\ inflight[h].req.op = "check" =>
                  \A k \in 1..Len(inflight'[h].resp.zones) :
                      \E i \in 1..Len(zones) :
                          inflight'[h].resp.zones[k] = zones[i]

\* C23: of two deletes of one stored zone that are in progress at the same
\* time and both reach the persistence layer, exactly one is answered 200
\* with the record and the other 404, under every interleaving; a list or a
\* check in progress at the same time answers whole records only, each at
\* most once: the records stored at the moment its query is carried out.
C23_ConcurrentDeletes ==
    []C23_OneDeleteWins /\ [][C23_AnswerOfTheMoment]_vars

\* C23 witness: two deletes of the same zone, both begun while it was
\* stored, have been answered, one 200 and one 404.
C23_Witness ==
    /\ DeleteDone("h1", ObjectId(1)) /\ DeleteDone("h2", ObjectId(1))
    /\ inflight["h1"].pc = "replied" /\ inflight["h2"].pc = "replied"
    /\ inflight["h1"].resp.status = 404
    /\ inflight["h2"].resp.status = 200

\* Handler h serves a request and has not sent its answer.
Pending(h) == inflight[h].pc \in {"awaiting", "settled"}

C24_OneAnswerNoRetry ==
    \A h \in Handlers :
        /\ inflight[h].calls <= 1
        /\ inflight[h].replies = IF inflight[h].pc = "replied" THEN 1 ELSE 0
        /\ inflight[h].pc \in {"settled", "replied"} =>
              inflight[h].resp.status \in {200, 201, 400, 404, 500}
        /\ inflight[h].resp.status = 500 => ~inflight[h].resp.success

C24_AwaitSettlesOnce ==
    \A h \in Handlers :
        (inflight[h].pc = "awaiting" /\ inflight'[h] # inflight[h]) =>
            /\ inflight'[h].pc = "settled"
            /\ inflight'[h].calls = inflight[h].calls
            /\ zones' = zones =>
                  inflight'[h].resp.status \in
                      IF inflight[h].req.op = "delete" THEN {404, 500}
                      ELSE IF inflight[h].req.op = "create" THEN {500}
                      ELSE {200, 500}
            /\ readyState # 1 => inflight'[h].resp.status = 500

C26_CountInRange ==
    \A ip \in DOMAIN requestCounts :
        /\ 1 <= requestCounts[ip].count
        /\ requestCounts[ip].count <= MAX_REQUESTS

C26_WindowRestarts ==
    LimiterStep =>
        /\ resp'.status = 429 =>
              /\ requestCounts' = requestCounts
              /\ req'.ip \in DOMAIN requestCounts
              /\ now' <= requestCounts[req'.ip].resetTime
        /\ (/\ req'.ip \in DOMAIN requestCounts
            /\ now' > requestCounts[req'.ip].resetTime) =>
              /\ pc' = "idle"
              /\ requestCounts'[req'.ip] =
                    [count |-> 1, resetTime |-> now' + RATE_LIMIT_WINDOW]
        /\ \A ip \in DOMAIN requestCounts :
              ip # req'.ip => requestCounts'[ip] = requestCounts[ip]

\* C26: a request of an ip made after the reset time of its record has
\* passed, also when the ip was answered 429 before, is handed on and starts
\* a new window with count 1; a request answered 429 leaves the Map as it
\* is, count and reset time included; in every state the count of each
\* record is between 1 and MAX_REQUESTS.
C26_LimitedThenAdmitted == []C26_CountInRange /\ [][C26_WindowRestarts]_vars

\* C26 witness: in production a client that was answered 429 in its first
\* window has had its first request after the reset time handed on, and its
\* record starts a new window with count 1.
C26_Witness ==
    /\ isProduction
    /\ pc = "idle" /\ req.ip \in limited
    /\ now = 60001
    /\ requestCounts[req.ip] = [count |-> 1, resetTime |-> 120001]

\* The cleanup runs in this step.
CleanupStep == nextCleanup' # nextCleanup

C27_OnlyExpiredRemoved ==
    /\ DOMAIN requestCounts \subseteq DOMAIN shadow
    /\ \A ip \in DOMAIN shadow :
          IF ip \in DOMAIN requestCounts
          THEN requestCounts[ip] = shadow[ip]
          ELSE now > shadow[ip].resetTime

C27_SameDecision ==
    /\ LimiterStep =>
          /\ (pc' = "idle") = rateLimit(shadow, req'.ip, now').next
          /\ (resp'.status = 429) = ~rateLimit(shadow, req'.ip, now').next
    /\ CleanupStep =>
          /\ DOMAIN requestCounts' \subseteq DOMAIN requestCounts
          /\ \A ip \in DOMAIN requestCounts :
                IF ip \in DOMAIN requestCounts'
                THEN requestCounts'[ip] = requestCounts[ip]
                ELSE now' > requestCounts[ip].resetTime

\* C27: a run of the cleanup removes only records whose reset time has
\* passed and leaves the others as they are, and for every sequence of
\* requests and cleanup runs each request is handed on or answered 429 as
\* it is by the middleware whose Map no cleanup ever touches.
C27_CleanupIsInvisible ==
    []C27_OnlyExpiredRemoved /\ [][C27_SameDecision]_vars

\* C27 witness: after a run of the cleanup that removed the record of one
\* client and kept the record of the other, whose reset time was the time
\* of the run, that other client was answered 429.
C27_Witness ==
    /\ nextCleanup > CLEANUP_INTERVAL
    /\ now = CLEANUP_INTERVAL
    /\ resp.status = 429
    /\ req.ip \in DOMAIN requestCounts
    /\ requestCounts[req.ip].resetTime = CLEANUP_INTERVAL
    /\ \E ip \in DOMAIN shadow : ip \notin DOMAIN requestCounts

-----------------------------------------------------------------------------
(* C28 *)

\* The step in which the process ends.
ExitStep == proc # "exited" /\ proc' = "exited"

\* A callback's mongoose.connection.close() has resolved.
DbClosed == \E i \in 1..Len(closers) : closers[i].pc = "closed"

\* A callback's mongoose.connection.close() has thrown.
DbCloseFailed == \E i \in 1..Len(closers) : closers[i].pc = "failed"

\* The process ends with 0 only when the HTTP server has closed and the
\* connection to the database has closed without an error after it.
C28_ZeroOnlyAfterCleanClose ==
    (proc = "exited" /\ exitCode = 0)
        => httpServer = "closed" /\ DbClosed /\ ~DbCloseFailed

\* The process ends with 1 in the step where closing the connection fails
\* and in the step where a force-exit timer fires, which is ten seconds after
\* a signal; the exit code is never changed afterwards.
C28_OneOnFailureOrTimer ==
    [][/\ ExitStep =>
            /\ exitCode' \in {0, 1}
            /\ (~DbCloseFailed /\ DbCloseFailed') => exitCode' = 1
            /\ timers' # timers =>
                  /\ exitCode' = 1
                  /\ \E due \in timers : due <= now /\ due >= FORCE_EXIT_MS
            /\ exitCode' = 0 <=> (~DbClosed /\ DbClosed')
       /\ proc = "exited" => UNCHANGED <<proc, exitCode>>]_vars

\* A running process is never later than ten seconds after a signal.
C28_NoTimerOverdue ==
    proc # "exited" => \A due \in timers : now <= due

\* A process that has received a signal ends.
C28_Terminates == (proc = "closing") ~> (proc = "exited")

\* C28: after SIGTERM or SIGINT, received once or more than once, the
\* process always ends: with exit code 0 only if the HTTP server closed and
\* the connection to the database then closed without an error, with exit
\* code 1 if closing the connection fails or the force-exit timer, ten
\* seconds after the signal, fires first.
C28_ShutdownTerminates ==
    /\ []C28_ZeroOnlyAfterCleanClose
    /\ []C28_NoTimerOverdue
    /\ C28_OneOnFailureOrTimer
    /\ C28_Terminates

\* The signal was received twice, the server never closed, and the timer of
\* the first signal ended the process with 1.
C28_Witness ==
    /\ proc = "exited"
    /\ exitCode = 1
    /\ Len(closers) = 2
    /\ httpServer = "closing"
    /\ \A i \in 1..Len(closers) : closers[i].pc = "waiting"
    /\ Cardinality(timers) = 1

\* The server and the connection closed in time: the process ended with 0.
C28_WitnessClean ==
    /\ proc = "exited"
    /\ exitCode = 0
    /\ DbClosed

====
